---- MODULE Spec2Model ----
(***************************************************************************)
(* The Action Intent Pipeline of the coding workbench:                     *)
(*   - the Action Schema            (shared/actions.ts, ChatAction)        *)
(*   - the Intent Parser            (ActionProcessor.parseUserRequest)     *)
(*   - the Action Executor          (ActionProcessor.executeAction)        *)
(*   - the Confirmation Gate        (ActionProcessor.confirmAction)        *)
(* over the in-memory record store (MemStorage).                           *)
(*                                                                         *)
(* Every async function is modelled by its synchronous segments: the code  *)
(* between two awaits runs as one atomic step (the JavaScript run-to-      *)
(* completion rule), and other calls may run between two segments.         *)
(***************************************************************************)
EXTENDS Integers, Sequences, FiniteSets, TLC

(***************************************************************************)
(* Bounds of the model.                                                    *)
(***************************************************************************)
\* how many UUIDs randomUUID() hands out in one run
MaxUuids == 2
\* how many calls of the processor are in flight at once
MaxCalls == 2
\* how many candidates a decoded oracle response lists
MaxCandidates == 2
\* how many interactive python processes are spawned in one run
MaxSessions == 2
\* how many chat turns a conversation takes
MaxTurns == 2

(***************************************************************************)
(* JSON values, as JSON.parse produces them.  A value is a record whose    *)
(* field k is its JavaScript kind; scalars carry their text in v, an array *)
(* carries the sequence of its elements and an object the function from    *)
(* its keys to their values.                                               *)
(***************************************************************************)
JNull == [k |-> "null"]
JStr(s) == [k |-> "str", v |-> s]
JNum(s) == [k |-> "num", v |-> s]
JBool(b) == [k |-> "bool", v |-> b]
JArr(es) == [k |-> "arr", v |-> es]
JObj(fs) == [k |-> "obj", v |-> fs]

\* the object with no keys
NoFields == [f \in {} |-> JNull]

\* obj.key of JavaScript, where obj is not null: undefined (here: absent)
\* on a scalar or an array for the keys used below
HasKey(j, key) == j.k = "obj" /\ key \in DOMAIN j.v

\* typeof j.key === "string"
IsStrAt(j, key) == HasKey(j, key) /\ j.v[key].k = "str"

\* JavaScript truthiness of a JSON value
Truthy(j) ==
  CASE j.k = "null" -> FALSE
    [] j.k = "bool" -> j.v
    [] j.k = "str" -> j.v # ""
    [] j.k = "num" -> j.v \notin {"0", "-0"}
    [] OTHER -> TRUE

(***************************************************************************)
(* The Action Schema (zod).  A variant is the set of its fields; a field   *)
(* is [name, kind, optional, enum], kind being the zod check on its value. *)
(***************************************************************************)
ActionType ==
  {"create_project", "add_file", "update_file", "delete_file",
   "create_web_page", "modify_apk", "run_python", "generate_code_snippet"}

\* z.string(), z.string().min(1), z.enum([...]), z.array(z.string()),
\* z.record(z.any()), z.literal(...)
ZodCheck(j, kind, enum) ==
  CASE kind = "string" -> j.k = "str"
    [] kind = "min1" -> j.k = "str" /\ j.v # ""
    [] kind = "enum" -> j.k = "str" /\ j.v \in enum
    [] kind = "strings" -> j.k = "arr" /\ \A i \in DOMAIN j.v : j.v[i].k = "str"
    [] kind = "record" -> j.k = "obj"
    [] OTHER -> FALSE

Req(name, kind) == [name |-> name, kind |-> kind, optional |-> FALSE, enum |-> {}]
Opt(name, kind) == [name |-> name, kind |-> kind, optional |-> TRUE, enum |-> {}]
ReqEnum(name, enum) == [name |-> name, kind |-> "enum", optional |-> FALSE, enum |-> enum]
OptEnum(name, enum) == [name |-> name, kind |-> "enum", optional |-> TRUE, enum |-> enum]

CreateProjectAction ==
  {ReqEnum("type", {"create_project"}), Req("name", "min1"),
   ReqEnum("projectType", {"web", "apk", "python"}), Opt("description", "string"),
   OptEnum("template", {"blank", "basic_website", "react_app", "android_app"})}

AddFileAction ==
  {ReqEnum("type", {"add_file"}), Req("projectId", "string"), Req("name", "min1"),
   Req("content", "string"), Req("path", "string"),
   ReqEnum("fileType", {"html", "css", "js", "py", "xml", "java", "kt", "smali"})}

UpdateFileAction ==
  {ReqEnum("type", {"update_file"}), Req("fileId", "string"), Opt("content", "string"),
   Opt("path", "string"), Opt("name", "string")}

DeleteFileAction ==
  {ReqEnum("type", {"delete_file"}), Req("fileId", "string")}

CreateWebPageAction ==
  {ReqEnum("type", {"create_web_page"}), Req("projectId", "string"),
   Req("pageName", "min1"),
   ReqEnum("pageType", {"landing", "contact", "about", "blog", "product", "service"}),
   OptEnum("style", {"modern", "classic", "minimal", "colorful"}),
   Opt("features", "strings")}

ModifyApkAction ==
  {ReqEnum("type", {"modify_apk"}), Req("projectId", "string"),
   ReqEnum("action", {"change_icon", "modify_strings", "add_feature", "change_theme"}),
   Req("parameters", "record")}

RunPythonAction ==
  {ReqEnum("type", {"run_python"}), Req("code", "min1"), Opt("description", "string")}

GenerateCodeSnippetAction ==
  {ReqEnum("type", {"generate_code_snippet"}), Req("language", "string"),
   Req("description", "min1"), Opt("context", "string")}

\* the option of the discriminated union that a discriminant selects
UnionOption(type) ==
  CASE type = "create_project" -> CreateProjectAction
    [] type = "add_file" -> AddFileAction
    [] type = "update_file" -> UpdateFileAction
    [] type = "delete_file" -> DeleteFileAction
    [] type = "create_web_page" -> CreateWebPageAction
    [] type = "modify_apk" -> ModifyApkAction
    [] type = "run_python" -> RunPythonAction
    [] type = "generate_code_snippet" -> GenerateCodeSnippetAction
    [] OTHER -> {}

\* optional fields left unchecked
FieldOk_OptionalUnchecked(j, f) ==
  f.optional \/ (f.name \in DOMAIN j.v /\ ZodCheck(j.v[f.name], f.kind, f.enum))

\* one field of a z.object: present and passing its check, or absent and optional
FieldOk(j, f) ==
  IF f.name \in DOMAIN j.v THEN ZodCheck(j.v[f.name], f.kind, f.enum) ELSE f.optional

\* ChatAction.parse(j) does not throw
ChatActionAccepts(j) ==
  /\ j.k = "obj"
  /\ IsStrAt(j, "type")
  /\ j.v["type"].v \in ActionType
  /\ \A f \in UnionOption(j.v["type"].v) : FieldOk(j, f)

\* the value ChatAction.parse(j) returns: z.object strips the keys the
\* selected option does not declare
ChatActionParse(j) ==
  LET keys == {f.name : f \in UnionOption(j.v["type"].v)} \cap DOMAIN j.v
  IN  JObj([key \in keys |-> j.v[key]])

(***************************************************************************)
(* The text-generation oracle and the decoding of its answer.              *)
(*                                                                         *)
(* A response text is [raw, value]: raw = "json" for a text that is the    *)
(* JSON serialisation of value, "prose" for a text that is no JSON         *)
(* document, "empty" for the empty text.                                   *)
(***************************************************************************)
ProseText == [raw |-> "prose", value |-> JNull]
EmptyText == [raw |-> "empty", value |-> JNull]
JsonText(j) == [raw |-> "json", value |-> j]

\* chatWithAI: response.text() || "I'm sorry, I couldn't process your request..."
ChatFallbackText == ProseText
chatWithAI(text) == IF text.raw = "empty" THEN ChatFallbackText ELSE text

\* a lenient decoder: a text that is no JSON document decodes to a string
JSONparse_Lenient(text) ==
  IF text.raw = "json" THEN [ok |-> TRUE, value |-> text.value]
  ELSE [ok |-> TRUE, value |-> [k |-> "str", v |-> text.raw]]

\* JSON.parse(text): [ok, value]; ok = FALSE is the SyntaxError it throws
JSONparse(text) ==
  IF text.raw = "json" THEN [ok |-> TRUE, value |-> text.value]
  ELSE [ok |-> FALSE, value |-> JNull]

(***************************************************************************)
(* The Intent Parser.  A parse context is [given, f]: given = FALSE is an  *)
(* undefined context, f maps the keys it carries to their strings.         *)
(***************************************************************************)
NoContext == [given |-> FALSE, f |-> [key \in {} |-> ""]]
Context(fields) == [given |-> TRUE, f |-> fields]

\* context?.projectId, as a condition
ContextHasProjectId(ctx) ==
  ctx.given /\ "projectId" \in DOMAIN ctx.f /\ ctx.f["projectId"] # ""

MsgNotUnderstood == "No pude entender tu solicitud. ¿Podrías ser más específico sobre lo que quieres hacer?"
MsgParseError == "Hubo un error procesando tu solicitud. ¿Podrías intentar de nuevo?"

\* the result of the catch at the JSON decoding
NotUnderstoodResult ==
  [actions |-> <<>>, needsMoreInfo |-> TRUE, clarificationMessage |-> JStr(MsgNotUnderstood)]

\* the result of the outer catch
ParseErrorResult ==
  [actions |-> <<>>, needsMoreInfo |-> TRUE, clarificationMessage |-> JStr(MsgParseError)]

\* the clarification branch handing the decoded object on as an action
ClarificationResult_KeepsAction(parsed) ==
  [actions |-> <<parsed>>, needsMoreInfo |-> TRUE]

\* { actions: [], needsMoreInfo: true, clarificationMessage: parsed.clarificationMessage }
\* (an undefined clarificationMessage is a result without that key)
ClarificationResult(parsed) ==
  IF HasKey(parsed, "clarificationMessage")
  THEN [actions |-> <<>>, needsMoreInfo |-> TRUE,
        clarificationMessage |-> parsed.v["clarificationMessage"]]
  ELSE [actions |-> <<>>, needsMoreInfo |-> TRUE]

\* the substitution left out
ReplaceCurrent_Never(action, ctx) == action

\* the placeholder bound to the sample project when the context has no projectId
ReplaceCurrent_DefaultProject(action, ctx) ==
  IF IsStrAt(action, "projectId") /\ action.v["projectId"].v = "current"
  THEN JObj([action.v EXCEPT !["projectId"] =
               JStr(IF ContextHasProjectId(ctx) THEN ctx.f["projectId"]
                    ELSE "sample-web-project")])
  ELSE action

\* if (action.projectId === "current" && context?.projectId)
\*   action.projectId = context.projectId
ReplaceCurrent(action, ctx) ==
  IF IsStrAt(action, "projectId") /\ action.v["projectId"].v = "current"
     /\ ContextHasProjectId(ctx)
  THEN JObj([action.v EXCEPT !["projectId"] = JStr(ctx.f["projectId"])])
  ELSE action

\* the body of the for loop over the candidates, null-free: the validated
\* actions pushed, in order
RECURSIVE ValidateActions(_, _)
ValidateActions(actions, ctx) ==
  IF actions = <<>> THEN <<>>
  ELSE LET action == ReplaceCurrent(Head(actions), ctx)
       IN  (IF ChatActionAccepts(action) THEN <<ChatActionParse(action)>> ELSE <<>>)
           \o ValidateActions(Tail(actions), ctx)

\* Array.isArray(parsed) ? parsed : [parsed]
AsArray(parsed) == IF parsed.k = "arr" THEN parsed.v ELSE <<parsed>>

\* reading action.projectId of a null candidate throws a TypeError, outside
\* the try around ChatAction.parse
LoopThrows(actions) == \E i \in DOMAIN actions : actions[i].k = "null"

\* the inner try of parseUserRequest, on the text chatWithAI returned
ParseResponse(result, ctx) ==
  LET decoded == JSONparse(result)
      parsed == decoded.value
  IN  IF ~decoded.ok THEN NotUnderstoodResult
      ELSE IF parsed.k = "null" THEN NotUnderstoodResult
      ELSE IF HasKey(parsed, "needsMoreInfo") /\ Truthy(parsed.v["needsMoreInfo"])
           THEN ClarificationResult(parsed)
      ELSE IF LoopThrows(AsArray(parsed)) THEN NotUnderstoodResult
      ELSE [actions |-> ValidateActions(AsArray(parsed), ctx), needsMoreInfo |-> FALSE]

(***************************************************************************)
(* The state.                                                              *)
(***************************************************************************)
VARIABLES
  \* ActionProcessor.pendingConfirmations: token -> [action]
  pendingConfirmations,
  \* MemStorage.projects and MemStorage.files: id -> record
  projects,
  files,
  \* the storage mirror (FileSystemService): <<projectId, path>> -> content
  mirror,
  \* the codes handed to the sandbox (PythonExecutor.executeCode)
  pythonRuns,
  \* how many UUIDs randomUUID() has returned
  uuids,
  \* the calls of executeAction and confirmAction in flight: slot -> record
  calls,
  \* every token modifyApk has registered, with the action it registered
  issued,
  \* how the pending entry of a token was resolved: "confirmed" | "denied"
  resolution,
  \* the call of parseUserRequest in flight
  parser,
  \* the PythonExecutor singleton: process, isRunning and its listeners
  pythonExecutor,
  \* the python3 -i processes startInteractiveSession has spawned: pid -> record
  children,
  \* MemStorage.conversations: id -> messages
  conversations,
  \* the chat requests in flight: slot -> record
  requests

\* the state of the server beside the action pipeline
serverVars == <<pythonExecutor, children, conversations, requests>>

vars ==
  <<pendingConfirmations, projects, files, mirror, pythonRuns, uuids, calls,
    issued, resolution, parser, serverVars>>

executorVars ==
  <<pendingConfirmations, projects, files, mirror, pythonRuns, uuids, calls,
    issued, resolution>>

\* randomUUID(n) is what randomUUID() returns after n earlier calls: a value
\* none of them returned
Uuid(i) == "uuid-" \o ToString(i)
randomUUID(n) == Uuid(n + 1)

EmptyMap == [key \in {} |-> JNull]

\* map.set(key, value)
MapSet(map, key, value) ==
  [x \in DOMAIN map \cup {key} |-> IF x = key THEN value ELSE map[x]]

\* map.delete(key)
MapDelete(map, key) == [x \in DOMAIN map \ {key} |-> map[x]]

(***************************************************************************)
(* MemStorage after construction: initializeSampleData.                    *)
(***************************************************************************)
SampleProjects ==
  "sample-web-project" :>
    [name |-> "mi-proyecto-web", type |-> "web",
     description |-> "Proyecto web de ejemplo"]

SampleFile(path, name, content, type, isModified) ==
  [projectId |-> "sample-web-project", path |-> path, name |-> name,
   content |-> content, type |-> type, isModified |-> isModified]

SampleFiles ==
  "file-1" :> SampleFile("/src/index.html", "index.html", "<!DOCTYPE html>...", "html", TRUE)
  @@ "file-2" :> SampleFile("/src/styles.css", "styles.css", ".container {...}", "css", FALSE)
  @@ "file-3" :> SampleFile("/src/script.js", "script.js", "function saludar() {...}", "js", FALSE)
  @@ "file-4" :> SampleFile("/main.py", "main.py", "def main(): ...", "py", FALSE)

(***************************************************************************)
(* The Action Executor.  An action is a validated JSON object; an outcome  *)
(* is a record holding the keys the returned object literal has.           *)
(***************************************************************************)
\* action.key, a string
Get(action, key) == action.v[key].v

MsgApk == "La modificación de APK es una operación compleja."
MsgNotFound == "Acción no encontrada o ya procesada."
MsgCancelled == "Acción cancelada por el usuario."
MsgFileNotFound == "Archivo no encontrado."
MsgNotDeleted == "No se pudo eliminar el archivo."
MsgPythonOk == "Código Python ejecutado exitosamente."
MsgPythonError == "Error ejecutando código Python."
MsgStructureError == "Failed to generate project structure: Error: Failed to generate project structure"
MsgNotIterable == "projectStructure.files is not iterable"
MsgNullFileData == "Cannot read properties of null (reading 'name')"
MsgMirrorError == "EACCES: permission denied"
MsgCodeError == "Failed to generate code: Error: fetch failed"

Outcome(success, message) == [success |-> success, message |-> message]

\* what confirmAction returns for a token that is not pending
NotFoundOutcome_Cancelled == Outcome(FALSE, MsgCancelled)
NotFoundOutcome == Outcome(FALSE, MsgNotFound)

\* what confirmAction returns when the user denies
CancelledOutcome == Outcome(FALSE, MsgCancelled)

\* the request for confirmation without its token
ConfirmationOutcome_NoToken(action, actionId) ==
  [success |-> FALSE,
   message |-> MsgApk,
   requiresConfirmation |-> TRUE,
   confirmationMessage |->
     "¿Estás seguro de que quieres " \o Get(action, "action")
       \o " en tu APK? Esta operación puede afectar la funcionalidad de la aplicación."]

\* what modifyApk returns
ConfirmationOutcome(action, actionId) ==
  [success |-> FALSE,
   message |-> MsgApk,
   requiresConfirmation |-> TRUE,
   confirmationMessage |->
     "¿Estás seguro de que quieres " \o Get(action, "action")
       \o " en tu APK? Esta operación puede afectar la funcionalidad de la aplicación.",
   actionId |-> actionId]

\* the state the first segment of a handler reads and writes
ExecState ==
  [pending |-> pendingConfirmations, files |-> files, uuids |-> uuids,
   pythonRuns |-> pythonRuns, issued |-> issued]

\* modifyApk with a token derived from the project instead of a fresh UUID
modifyApk_ProjectToken(action, st) ==
  LET actionId == "apk-" \o Get(action, "projectId")
  IN  [st |-> [st EXCEPT !.pending = MapSet(@, actionId, [action |-> action]),
                         !.issued = MapSet(@, actionId, action)],
       call |-> [pc |-> "done", result |-> ConfirmationOutcome(action, actionId)]]

\* modifyApk keeping one outstanding confirmation: the new entry replaces the map
modifyApk_SingleSlot(action, st) ==
  LET actionId == randomUUID(st.uuids)
  IN  [st |-> [st EXCEPT !.uuids = @ + 1,
                         !.pending = actionId :> [action |-> action],
                         !.issued = MapSet(@, actionId, action)],
       call |-> [pc |-> "done", result |-> ConfirmationOutcome(action, actionId)]]

\* modifyApk: mint a token, register the action under it, ask for confirmation
modifyApk(action, st) ==
  LET actionId == randomUUID(st.uuids)
  IN  [st |-> [st EXCEPT !.uuids = @ + 1,
                         !.pending = MapSet(@, actionId, [action |-> action]),
                         !.issued = MapSet(@, actionId, action)],
       call |-> [pc |-> "done", result |-> ConfirmationOutcome(action, actionId)]]

\* storage.createFile(insertFile), which addFile calls first
createFile(fileMap, id, action) ==
  MapSet(fileMap, id,
         [projectId |-> Get(action, "projectId"), path |-> Get(action, "path"),
          name |-> Get(action, "name"), content |-> Get(action, "content"),
          type |-> Get(action, "fileType"), isModified |-> FALSE])

\* addFile up to its first await
addFile(action, st) ==
  LET id == randomUUID(st.uuids)
  IN  [st |-> [st EXCEPT !.uuids = @ + 1, !.files = createFile(@, id, action)],
       call |-> [pc |-> "addFile:mirror", file |-> id]]

\* deleteFile deferred as modifyApk is: the action is registered under a
\* token and the outcome asks for confirmation
deleteFile_Deferred(action, st) ==
  LET actionId == "delete-" \o Get(action, "fileId")
  IN  [st |-> [st EXCEPT !.pending = MapSet(@, actionId, [action |-> action])],
       call |-> [pc |-> "done",
                 result |-> [success |-> FALSE,
                             message |-> "Eliminar un archivo requiere confirmación.",
                             requiresConfirmation |-> TRUE,
                             actionId |-> actionId]]]

\* deleteFile up to its first await: storage.getFile(action.fileId)
deleteFile(action, st) ==
  LET id == Get(action, "fileId")
  IN  [st |-> st,
       call |-> [pc |-> "deleteFile:got",
                 got |-> IF id \in DOMAIN st.files THEN <<st.files[id]>> ELSE <<>>]]

\* runPython up to its await: pythonExecutor.executeCode spawns the process
runPython(action, st) ==
  [st |-> [st EXCEPT !.pythonRuns = @ \cup {Get(action, "code")}],
   call |-> [pc |-> "runPython:wait"]]

\* the fields among content, path and name that the action carries:
\* if (action.f !== undefined) updates.f = action.f
Updates(action) ==
  [f \in {"content", "path", "name"} \cap DOMAIN action.v |-> action.v[f].v]

\* the update that forgets to mark the file as modified
updateFileRecord_NoModified(file, updates) ==
  [f \in DOMAIN file |-> IF f \in DOMAIN updates THEN updates[f] ELSE file[f]]

\* storage.updateFile(id, updates): { ...file, ...fileUpdate }, with
\* isModified among the updates (the timestamps are left out of the records)
updateFileRecord(file, updates) ==
  [f \in DOMAIN file |->
     IF f = "isModified" THEN TRUE
     ELSE IF f \in DOMAIN updates THEN updates[f]
     ELSE file[f]]

\* updateFile storing the updates as a new record when the file is missing
updateFile_Upsert(action, st) ==
  LET id == Get(action, "fileId")
      blank == [projectId |-> "", path |-> "", name |-> "", content |-> "",
                type |-> "", isModified |-> FALSE]
      file == updateFileRecord(IF id \in DOMAIN st.files THEN st.files[id] ELSE blank,
                               Updates(action))
  IN  [st |-> [st EXCEPT !.files = MapSet(@, id, file)],
       call |-> IF HasKey(action, "content")
                THEN [pc |-> "updateFile:mirror", file |-> file]
                ELSE [pc |-> "done",
                      result |-> Outcome(TRUE, "Archivo \"" \o file.name
                                              \o "\" actualizado exitosamente.")]]

\* updateFile up to the mirror call: the not-found return, the success return
\* of an update without content, or the await of fileSystemService.updateFile
updateFile(action, st) ==
  LET id == Get(action, "fileId")
  IN  IF id \notin DOMAIN st.files
      THEN [st |-> st,
            call |-> [pc |-> "done", result |-> Outcome(FALSE, MsgFileNotFound)]]
      ELSE LET file == updateFileRecord(st.files[id], Updates(action))
           IN  [st |-> [st EXCEPT !.files = MapSet(@, id, file)],
                call |-> IF HasKey(action, "content")
                         THEN [pc |-> "updateFile:mirror", file |-> file]
                         ELSE [pc |-> "done",
                               result |-> Outcome(TRUE, "Archivo \"" \o file.name
                                                       \o "\" actualizado exitosamente.")]]

\* createProject and createWebPage up to their first await:
\* generateProjectStructure is called
createProject(action, st) == [st |-> st, call |-> [pc |-> "createProject:structure"]]
createWebPage(action, st) == [st |-> st, call |-> [pc |-> "createWebPage:structure"]]

\* generateCodeSnippet up to its await: generateCode is called
generateCodeSnippet(action, st) == [st |-> st, call |-> [pc |-> "generateCode:wait"]]

\* the variants of the switch in executeAction
HandledTypes ==
  {"create_project", "add_file", "update_file", "delete_file", "create_web_page",
   "modify_apk", "run_python", "generate_code_snippet"}

\* the bound on randomUUID: a handler that mints a UUID runs while one is left
CanBegin(action, st) ==
  /\ Get(action, "type") \in HandledTypes
  /\ Get(action, "type") \in {"modify_apk", "add_file"} => st.uuids < MaxUuids

\* executeAction(action) up to its first await: the switch on action.type
executeAction(action, st) ==
  CASE Get(action, "type") = "modify_apk" -> modifyApk(action, st)
    [] Get(action, "type") = "add_file" -> addFile(action, st)
    [] Get(action, "type") = "delete_file" -> deleteFile(action, st)
    [] Get(action, "type") = "run_python" -> runPython(action, st)
    [] Get(action, "type") = "update_file" -> updateFile(action, st)
    [] Get(action, "type") = "create_project" -> createProject(action, st)
    [] Get(action, "type") = "create_web_page" -> createWebPage(action, st)
    [] Get(action, "type") = "generate_code_snippet" -> generateCodeSnippet(action, st)

(***************************************************************************)
(* The inputs the model draws from.                                        *)
(***************************************************************************)
CallIds == 1 .. MaxCalls

Obj2(k1, v1, k2, v2) == JObj(k1 :> v1 @@ k2 :> v2)

ModifyApk(action, parameters) ==
  JObj("type" :> JStr("modify_apk") @@ "projectId" :> JStr("sample-web-project")
       @@ "action" :> JStr(action) @@ "parameters" :> parameters)

ModifyApkInputs ==
  {ModifyApk("change_icon", JObj("icon" :> JStr("new.png"))),
   ModifyApk("change_theme", JObj(NoFields))}

AddFileInputs ==
  {JObj("type" :> JStr("add_file") @@ "projectId" :> JStr("sample-web-project")
        @@ "name" :> JStr("about.html") @@ "content" :> JStr("<h1>About</h1>")
        @@ "path" :> JStr("/src/about.html") @@ "fileType" :> JStr("html"))}

DeleteFileInputs ==
  {Obj2("type", JStr("delete_file"), "fileId", JStr(id)) : id \in {"file-1", "no-such-file"}}

RunPythonInputs == {Obj2("type", JStr("run_python"), "code", JStr("print(1)"))}

UpdateFileInputs ==
  {JObj("type" :> JStr("update_file") @@ "fileId" :> JStr("file-1")
        @@ "content" :> JStr("<p>hola</p>")),
   JObj("type" :> JStr("update_file") @@ "fileId" :> JStr("file-3")
        @@ "content" :> JStr("console.log(1)")),
   JObj("type" :> JStr("update_file") @@ "fileId" :> JStr("file-2")
        @@ "path" :> JStr("/css/main.css") @@ "name" :> JStr("main.css")),
   JObj("type" :> JStr("update_file") @@ "fileId" :> JStr("no-such-file")
        @@ "content" :> JStr("<p>hola</p>")),
   JObj("type" :> JStr("update_file") @@ "fileId" :> JStr("no-such-file")
        @@ "path" :> JStr("/css/main.css") @@ "name" :> JStr("main.css"))}

CreateProjectInputs ==
  {JObj("type" :> JStr("create_project") @@ "name" :> JStr("mi-sitio")
        @@ "projectType" :> JStr("web"))}

CreateWebPageInputs ==
  {JObj("type" :> JStr("create_web_page") @@ "projectId" :> JStr("sample-web-project")
        @@ "pageName" :> JStr("contacto") @@ "pageType" :> JStr("contact"))}

GenerateCodeSnippetInputs ==
  {JObj("type" :> JStr("generate_code_snippet") @@ "language" :> JStr("javascript")
        @@ "description" :> JStr("Componente React para mostrar productos"))}

\* one generated file, as the oracle describes it
FileData(name, content, type) ==
  JObj("path" :> JStr("/" \o name) @@ "name" :> JStr(name)
       @@ "content" :> JStr(content) @@ "type" :> JStr(type))

\* what generateProjectStructure returns, JSON.parse(rawJson) unvalidated:
\* file lists, a list with a null element, and values without a file list
Structures ==
  {JObj("files" :> JArr(<<FileData("index.html", "<h1>Hola</h1>", "html"),
                          FileData("styles.css", "h1 {}", "css")>>)
        @@ "description" :> JStr("sitio")),
   JObj("files" :> JArr(<<FileData("index.html", "<h1>Hola</h1>", "html"), JNull>>)),
   JObj("files" :> JArr(<<>>)),
   JObj("description" :> JStr("sitio")),
   JObj("files" :> JObj(NoFields)),
   JNull}

\* the validated actions handed to executeAction when only the executor runs
ExecInputs == ModifyApkInputs \cup AddFileInputs \cup DeleteFileInputs \cup RunPythonInputs

\* the validated actions handed to executeAction beside the Confirmation Gate
GateInputs ==
  ModifyApkInputs \cup {Obj2("type", JStr("delete_file"), "fileId", JStr("file-1"))}

\* the tokens handed to confirmAction: those modifyApk has returned so far,
\* and one it never returns
ConfirmTokens == DOMAIN issued \cup {"no-such-token"}

(***************************************************************************)
(* Initial state: the processor and the store as constructed.              *)
(***************************************************************************)
Init ==
  /\ pendingConfirmations = EmptyMap
  /\ projects = SampleProjects
  /\ files = SampleFiles
  /\ mirror = EmptyMap
  /\ pythonRuns = {}
  /\ uuids = 0
  /\ calls = [c \in CallIds |-> [pc |-> "idle"]]
  /\ issued = EmptyMap
  /\ resolution = EmptyMap
  /\ parser = [pc |-> "idle"]
  /\ pythonExecutor = [process |-> 0, isRunning |-> FALSE, listeners |-> 0]
  /\ children = EmptyMap
  /\ conversations = EmptyMap
  /\ requests = [r \in CallIds |-> [pc |-> "idle"]]

\* where a token stands in the Confirmation Gate's state machine
TokenState(token) ==
  IF token \notin DOMAIN issued THEN "unregistered"
  ELSE IF token \in DOMAIN resolution THEN resolution[token]
  ELSE "pending"

\* the handler's first segment has run: its writes become the state
Commit(st) ==
  /\ pendingConfirmations' = st.pending
  /\ files' = st.files
  /\ uuids' = st.uuids
  /\ pythonRuns' = st.pythonRuns
  /\ issued' = st.issued

\* the whole map cleared instead of the one entry
DeletePending_Clear(pending, actionId) == EmptyMap

\* the removal forgotten
DeletePending_Skip(pending, actionId) == pending

\* this.pendingConfirmations.delete(actionId)
DeletePending(pending, actionId) == MapDelete(pending, actionId)

(***************************************************************************)
(* The calls.                                                              *)
(***************************************************************************)
\* a caller invokes executeAction(action)
ExecuteAction(c, action) ==
  /\ calls[c].pc = "idle"
  /\ CanBegin(action, ExecState)
  /\ LET r == executeAction(action, ExecState)
     IN  /\ Commit(r.st)
         /\ calls' = [calls EXCEPT ![c] =
                        r.call @@ [op |-> "executeAction", action |-> action]]
  /\ UNCHANGED <<projects, mirror, resolution, parser, serverVars>>

\* confirmAction with an await between the lookup and the removal: the
\* lookup is one step, the removal and the execution another
ConfirmAction_Split(c, actionId, confirmed) ==
  \/ /\ calls[c].pc = "idle"
     /\ calls' = [calls EXCEPT ![c] =
                    [pc |-> "confirm:lookup", op |-> "confirmAction",
                     actionId |-> actionId, confirmed |-> confirmed,
                     before |-> TokenState(actionId),
                     found |-> actionId \in DOMAIN pendingConfirmations,
                     entry |-> IF actionId \in DOMAIN pendingConfirmations
                               THEN <<pendingConfirmations[actionId]>> ELSE <<>>]]
     /\ UNCHANGED <<pendingConfirmations, projects, files, mirror, pythonRuns, uuids,
                    issued, resolution, parser, serverVars>>
  \/ /\ calls[c].pc = "confirm:lookup"
     /\ calls[c].actionId = actionId
     /\ calls[c].confirmed = confirmed
     /\ IF ~calls[c].found
        THEN /\ calls' = [calls EXCEPT ![c] =
                            [pc |-> "done", result |-> NotFoundOutcome,
                             executed |-> <<>>] @@ @]
             /\ UNCHANGED <<pendingConfirmations, files, uuids, pythonRuns,
                            issued, resolution>>
        ELSE LET pending == calls[c].entry[1]
                 st == [ExecState EXCEPT !.pending = DeletePending(@, actionId)]
             IN  IF ~confirmed
                 THEN /\ Commit(st)
                      /\ resolution' = MapSet(resolution, actionId, "denied")
                      /\ calls' = [calls EXCEPT ![c] =
                                     [pc |-> "done", result |-> CancelledOutcome,
                                      executed |-> <<>>] @@ @]
                 ELSE /\ CanBegin(pending.action, st)
                      /\ LET r == executeAction(pending.action, st)
                         IN  /\ Commit(r.st)
                             /\ calls' = [calls EXCEPT ![c] =
                                            r.call
                                            @@ [action |-> pending.action,
                                                executed |-> <<pending.action>>]
                                            @@ @]
                      /\ resolution' = MapSet(resolution, actionId, "confirmed")
     /\ UNCHANGED <<projects, mirror, parser, serverVars>>

\* a caller invokes confirmAction(actionId, confirmed): the lookup, the
\* removal and the stored action's executeAction up to its first await run
\* without an await between them
ConfirmAction(c, actionId, confirmed) ==
  /\ calls[c].pc = "idle"
  /\ LET call == [op |-> "confirmAction", actionId |-> actionId,
                  confirmed |-> confirmed, before |-> TokenState(actionId),
                  found |-> actionId \in DOMAIN pendingConfirmations]
     IN  IF actionId \notin DOMAIN pendingConfirmations
         THEN /\ calls' = [calls EXCEPT ![c] =
                             [pc |-> "done", result |-> NotFoundOutcome,
                              executed |-> <<>>] @@ call]
              /\ UNCHANGED <<pendingConfirmations, files, uuids, pythonRuns,
                             issued, resolution>>
         ELSE LET pending == pendingConfirmations[actionId]
                  st == [ExecState EXCEPT
                           !.pending = DeletePending(@, actionId)]
              IN  IF ~confirmed
                  THEN /\ Commit(st)
                       /\ resolution' = MapSet(resolution, actionId, "denied")
                       /\ calls' = [calls EXCEPT ![c] =
                                      [pc |-> "done",
                                       result |-> CancelledOutcome,
                                       executed |-> <<>>] @@ call]
                  ELSE /\ CanBegin(pending.action, st)
                       /\ LET r == executeAction(pending.action, st)
                          IN  /\ Commit(r.st)
                              /\ calls' = [calls EXCEPT ![c] =
                                             r.call
                                             @@ [action |-> pending.action,
                                                 executed |-> <<pending.action>>]
                                             @@ call]
                       /\ resolution' = MapSet(resolution, actionId, "confirmed")
  /\ UNCHANGED <<projects, mirror, parser, serverVars>>

\* addFile after storage.createFile: fileSystemService.createFile wrote the file
AddFileMirrored(c) ==
  /\ calls[c].pc = "addFile:mirror"
  /\ LET action == calls[c].action
     IN  /\ mirror' = MapSet(mirror, <<Get(action, "projectId"), Get(action, "path")>>,
                             Get(action, "content"))
         /\ calls' = [calls EXCEPT ![c] =
                        [pc |-> "done",
                         result |-> Outcome(TRUE, "Archivo \"" \o Get(action, "name")
                                               \o "\" agregado exitosamente.")] @@ @]
  /\ UNCHANGED <<pendingConfirmations, projects, files, pythonRuns, uuids, issued,
                 resolution, parser, serverVars>>

\* addFile and executeAction without their catch blocks: the rejection of
\* fileSystemService.createFile reaches the caller
AddFileMirrorFailed_Rethrows(c) ==
  /\ calls[c].pc = "addFile:mirror"
  /\ calls' = [calls EXCEPT ![c] = [pc |-> "threw"] @@ @]
  /\ UNCHANGED <<pendingConfirmations, projects, files, mirror, pythonRuns, uuids,
                 issued, resolution, parser, serverVars>>

\* addFile after storage.createFile: fileSystemService.createFile rejected
\* (mkdir or writeFile failed), and the catch of addFile reports it
AddFileMirrorFailed(c) ==
  /\ calls[c].pc = "addFile:mirror"
  /\ calls' = [calls EXCEPT ![c] =
                 [pc |-> "done",
                  result |-> Outcome(FALSE, "Error agregando el archivo: EACCES")] @@ @]
  /\ UNCHANGED <<pendingConfirmations, projects, files, mirror, pythonRuns, uuids,
                 issued, resolution, parser, serverVars>>

\* deleteFile removing every file record of the file's project
DeleteFileGot_WholeProject(c) ==
  /\ calls[c].pc = "deleteFile:got"
  /\ LET id == Get(calls[c].action, "fileId")
     IN  IF calls[c].got = <<>>
         THEN /\ calls' = [calls EXCEPT ![c] =
                             [pc |-> "done", result |-> Outcome(FALSE, MsgFileNotFound)] @@ @]
              /\ files' = files
         ELSE /\ calls' = [calls EXCEPT ![c] =
                             [pc |-> "deleteFile:deleted",
                              deleted |-> id \in DOMAIN files] @@ @]
              /\ files' = [x \in {y \in DOMAIN files :
                                     files[y].projectId # calls[c].got[1].projectId}
                             |-> files[x]]
  /\ UNCHANGED <<pendingConfirmations, projects, mirror, pythonRuns, uuids, issued,
                 resolution, parser, serverVars>>

\* deleteFile after storage.getFile: the not-found return, or storage.deleteFile
DeleteFileGot(c) ==
  /\ calls[c].pc = "deleteFile:got"
  /\ LET id == Get(calls[c].action, "fileId")
     IN  IF calls[c].got = <<>>
         THEN /\ calls' = [calls EXCEPT ![c] =
                             [pc |-> "done", result |-> Outcome(FALSE, MsgFileNotFound)] @@ @]
              /\ files' = files
         ELSE /\ calls' = [calls EXCEPT ![c] =
                             [pc |-> "deleteFile:deleted",
                              deleted |-> id \in DOMAIN files] @@ @]
              /\ files' = MapDelete(files, id)
  /\ UNCHANGED <<pendingConfirmations, projects, mirror, pythonRuns, uuids, issued,
                 resolution, parser, serverVars>>

\* deleteFile ignoring what storage.deleteFile returned
DeleteFileDeleted_IgnoresResult(c) ==
  /\ calls[c].pc = "deleteFile:deleted"
  /\ calls' = [calls EXCEPT ![c] =
                 [pc |-> "done",
                  result |-> Outcome(TRUE, "Archivo \"" \o calls[c].got[1].name
                                             \o "\" eliminado exitosamente.")] @@ @]
  /\ UNCHANGED <<pendingConfirmations, projects, files, mirror, pythonRuns, uuids,
                 issued, resolution, parser, serverVars>>

\* deleteFile after storage.deleteFile
DeleteFileDeleted(c) ==
  /\ calls[c].pc = "deleteFile:deleted"
  /\ calls' = [calls EXCEPT ![c] =
                 [pc |-> "done",
                  result |-> IF calls[c].deleted
                          THEN Outcome(TRUE, "Archivo \"" \o calls[c].got[1].name
                                             \o "\" eliminado exitosamente.")
                          ELSE Outcome(FALSE, MsgNotDeleted)] @@ @]
  /\ UNCHANGED <<pendingConfirmations, projects, files, mirror, pythonRuns, uuids,
                 issued, resolution, parser, serverVars>>

\* runPython after executeCode: the process closed with exit code 0 or not
RunPythonClosed(c, success) ==
  /\ calls[c].pc = "runPython:wait"
  /\ calls' = [calls EXCEPT ![c] =
                 [pc |-> "done",
                  result |-> Outcome(success, IF success THEN MsgPythonOk ELSE MsgPythonError)]
                 @@ @]
  /\ UNCHANGED <<pendingConfirmations, projects, files, mirror, pythonRuns, uuids,
                 issued, resolution, parser, serverVars>>

\* updateFile after fileSystemService.updateFile: the file was written, or
\* writeFile rejected and the catch of updateFile reports it
UpdateFileMirrored(c, ok) ==
  /\ calls[c].pc = "updateFile:mirror"
  /\ LET file == calls[c].file
     IN  IF ok
         THEN /\ mirror' = MapSet(mirror, <<file.projectId, file.path>>,
                                  Get(calls[c].action, "content"))
              /\ calls' = [calls EXCEPT ![c] =
                             [pc |-> "done",
                              result |-> Outcome(TRUE, "Archivo \"" \o file.name
                                                    \o "\" actualizado exitosamente.")] @@ @]
         ELSE /\ mirror' = mirror
              /\ calls' = [calls EXCEPT ![c] =
                             [pc |-> "done",
                              result |-> Outcome(FALSE, "Error actualizando el archivo: "
                                                    \o MsgMirrorError)] @@ @]
  /\ UNCHANGED <<pendingConfirmations, projects, files, pythonRuns, uuids, issued,
                 resolution, parser, serverVars>>

\* generateCodeSnippet after generateCode: the code, or the catch
GenerateCodeReturned(c, ok) ==
  /\ calls[c].pc = "generateCode:wait"
  /\ calls' = [calls EXCEPT ![c] =
                 [pc |-> "done",
                  result |-> IF ok
                             THEN Outcome(TRUE, "Código " \o Get(calls[c].action, "language")
                                                \o " generado exitosamente.")
                             ELSE Outcome(FALSE, "Error generando código: " \o MsgCodeError)]
                 @@ @]
  /\ UNCHANGED <<pendingConfirmations, projects, files, mirror, pythonRuns, uuids,
                 issued, resolution, parser, serverVars>>

\* the prefix of the message the catch of a structure-generating handler returns
CatchPrefix(call) ==
  IF Get(call.action, "type") = "create_project"
  THEN "Error creando el proyecto: "
  ELSE "Error creando la página: "

\* generateProjectStructure threw: the catch of createProject or createWebPage
StructureThrows(c) ==
  /\ calls[c].pc \in {"createProject:structure", "createWebPage:structure"}
  /\ calls' = [calls EXCEPT ![c] =
                 [pc |-> "done",
                  result |-> Outcome(FALSE, CatchPrefix(calls[c]) \o MsgStructureError)] @@ @]
  /\ UNCHANGED <<pendingConfirmations, projects, files, mirror, pythonRuns, uuids,
                 issued, resolution, parser, serverVars>>

\* structure.files can be iterated by for ... of
Iterable(structure) == HasKey(structure, "files") /\ structure.v["files"].k = "arr"

\* the i-th pass of the loop over projectStructure.files, whose call record
\* is call: the TypeError of a value that cannot be iterated or of a null
\* element, the success return after the last element, or storage.createFile
\* of the element and the await that follows it
LoopPass(c, call, i, projectId, waiting, successMessage) ==
  LET structure == call.structure
      fail(message) ==
        /\ calls' = [calls EXCEPT ![c] =
                       [pc |-> "done",
                        result |-> Outcome(FALSE, CatchPrefix(call) \o message)] @@ call]
        /\ UNCHANGED <<files, uuids>>
  IN  IF ~Iterable(structure) THEN fail(MsgNotIterable)
      ELSE LET list == structure.v["files"].v
           IN  IF i > Len(list)
               THEN /\ calls' = [calls EXCEPT ![c] =
                                   [pc |-> "done",
                                    result |-> Outcome(TRUE, successMessage
                                                 \o ToString(Len(list)) \o " archivos.")]
                                   @@ call]
                    /\ UNCHANGED <<files, uuids>>
               ELSE IF list[i].k = "null" THEN fail(MsgNullFileData)
               ELSE /\ uuids < MaxUuids
                    /\ LET fileData == list[i]
                           isPage == Get(call.action, "type") = "create_web_page"
                           pageName == Get(call.action, "pageName")
                           name == IF isPage THEN pageName \o "-" \o Get(fileData, "name")
                                   ELSE Get(fileData, "name")
                           path == IF isPage
                                   THEN "/pages/" \o pageName \o "/" \o Get(fileData, "name")
                                   ELSE Get(fileData, "path")
                       IN  /\ files' = MapSet(files, randomUUID(uuids),
                                              [projectId |-> projectId, path |-> path,
                                               name |-> name,
                                               content |-> Get(fileData, "content"),
                                               type |-> Get(fileData, "type"),
                                               isModified |-> FALSE])
                           /\ uuids' = uuids + 1
                           /\ calls' = [calls EXCEPT ![c] =
                                          [pc |-> waiting, index |-> i, path |-> path,
                                           content |-> Get(fileData, "content")] @@ call]

\* createProject after generateProjectStructure returned: storage.createProject,
\* then the await of fileSystemService.createProject
ProjectStructureReturns(c, structure) ==
  /\ calls[c].pc = "createProject:structure"
  /\ uuids < MaxUuids
  /\ LET action == calls[c].action
         id == randomUUID(uuids)
     IN  /\ projects' =
              MapSet(projects, id,
                     [name |-> Get(action, "name"),
                      type |-> Get(action, "projectType"),
                      description |->
                        IF HasKey(action, "description") /\ Get(action, "description") # ""
                        THEN Get(action, "description")
                        ELSE "Proyecto " \o Get(action, "projectType") \o " creado con IA"])
         /\ calls' = [calls EXCEPT ![c] =
                        [pc |-> "createProject:mkdir", structure |-> structure,
                         project |-> id] @@ @]
  /\ uuids' = uuids + 1
  /\ UNCHANGED <<pendingConfirmations, files, mirror, pythonRuns, issued, resolution,
                 parser, serverVars>>

\* createProject after fileSystemService.createProject: mkdir failed and the
\* catch reports it, or the loop over the generated files begins
CreateProjectMkdir(c, ok) ==
  /\ calls[c].pc = "createProject:mkdir"
  /\ IF ok
     THEN LoopPass(c, calls[c], 1, calls[c].project, "createProject:mirror",
                   "Proyecto \"" \o Get(calls[c].action, "name")
                        \o "\" creado exitosamente con ")
     ELSE /\ calls' = [calls EXCEPT ![c] =
                         [pc |-> "done",
                          result |-> Outcome(FALSE, CatchPrefix(calls[c]) \o MsgMirrorError)]
                         @@ @]
          /\ UNCHANGED <<files, uuids>>
  /\ UNCHANGED <<pendingConfirmations, projects, mirror, pythonRuns, issued, resolution,
                 parser, serverVars>>

\* createProject undoing its work when a file cannot be mirrored: the project
\* record and the file records of the project are deleted again
CreateProjectMirrored_RollsBack(c, ok) ==
  /\ calls[c].pc = "createProject:mirror"
  /\ IF ok
     THEN /\ mirror' = MapSet(mirror, <<calls[c].project, calls[c].path>>, calls[c].content)
          /\ LoopPass(c, calls[c], calls[c].index + 1, calls[c].project,
                      "createProject:mirror",
                      "Proyecto \"" \o Get(calls[c].action, "name")
                        \o "\" creado exitosamente con ")
          /\ projects' = projects
     ELSE /\ mirror' = mirror
          /\ calls' = [calls EXCEPT ![c] =
                         [pc |-> "done",
                          result |-> Outcome(FALSE, CatchPrefix(calls[c]) \o MsgMirrorError)]
                         @@ @]
          /\ projects' = MapDelete(projects, calls[c].project)
          /\ files' = [id \in {x \in DOMAIN files : files[x].projectId # calls[c].project}
                         |-> files[id]]
          /\ uuids' = uuids
  /\ UNCHANGED <<pendingConfirmations, pythonRuns, issued, resolution, parser, serverVars>>

\* createProject after fileSystemService.createFile of the index-th file: it
\* failed and the catch reports it, or the file is pushed and the loop goes on
CreateProjectMirrored(c, ok) ==
  /\ calls[c].pc = "createProject:mirror"
  /\ IF ok
     THEN /\ mirror' = MapSet(mirror, <<calls[c].project, calls[c].path>>, calls[c].content)
          /\ LoopPass(c, calls[c], calls[c].index + 1, calls[c].project,
                      "createProject:mirror",
                      "Proyecto \"" \o Get(calls[c].action, "name")
                        \o "\" creado exitosamente con ")
     ELSE /\ mirror' = mirror
          /\ calls' = [calls EXCEPT ![c] =
                         [pc |-> "done",
                          result |-> Outcome(FALSE, CatchPrefix(calls[c]) \o MsgMirrorError)]
                         @@ @]
          /\ UNCHANGED <<files, uuids>>
  /\ UNCHANGED <<pendingConfirmations, projects, pythonRuns, issued, resolution, parser, serverVars>>

\* createWebPage after generateProjectStructure returned: the loop begins
PageStructureReturns(c, structure) ==
  /\ calls[c].pc = "createWebPage:structure"
  /\ LoopPass(c, [structure |-> structure] @@ calls[c], 1,
              Get(calls[c].action, "projectId"), "createWebPage:file",
              "Página \"" \o Get(calls[c].action, "pageName")
                \o "\" creada exitosamente con ")
  /\ UNCHANGED <<pendingConfirmations, projects, mirror, pythonRuns, issued, resolution,
                 parser, serverVars>>

\* createWebPage writing each page file to the mirror as createProject does
CreateWebPageFile_Mirrors(c) ==
  /\ calls[c].pc = "createWebPage:file"
  /\ mirror' = MapSet(mirror, <<Get(calls[c].action, "projectId"), calls[c].path>>,
                      calls[c].content)
  /\ LoopPass(c, calls[c], calls[c].index + 1, Get(calls[c].action, "projectId"),
              "createWebPage:file",
              "Página \"" \o Get(calls[c].action, "pageName")
                \o "\" creada exitosamente con ")
  /\ UNCHANGED <<pendingConfirmations, projects, pythonRuns, issued, resolution,
                 parser, serverVars>>

\* createWebPage after storage.createFile of the index-th file: the next pass
CreateWebPageFile(c) ==
  /\ calls[c].pc = "createWebPage:file"
  /\ LoopPass(c, calls[c], calls[c].index + 1, Get(calls[c].action, "projectId"),
              "createWebPage:file",
              "Página \"" \o Get(calls[c].action, "pageName")
                \o "\" creada exitosamente con ")
  /\ UNCHANGED <<pendingConfirmations, projects, mirror, pythonRuns, issued, resolution,
                 parser, serverVars>>

\* the caller has the outcome the call's promise resolved with, and is done with it
Finish(c) ==
  /\ calls[c].pc = "done"
  /\ calls' = [calls EXCEPT ![c] = [pc |-> "idle"]]
  /\ UNCHANGED <<pendingConfirmations, projects, files, mirror, pythonRuns, uuids,
                 issued, resolution, parser, serverVars>>

\* the Confirmation Gate with the deferring handler and one immediate one:
\* calls of executeAction on modify_apk and delete_file actions, and of
\* confirmAction on any token
Next ==
  \/ \E c \in CallIds, action \in GateInputs : ExecuteAction(c, action)
  \/ \E c \in CallIds, actionId \in ConfirmTokens, confirmed \in BOOLEAN :
       ConfirmAction(c, actionId, confirmed)
  \/ \E c \in CallIds : DeleteFileGot(c)
  \/ \E c \in CallIds : DeleteFileDeleted(c)
  \/ \E c \in CallIds : Finish(c)

Spec == Init /\ [][Next]_vars

\* the Action Executor alone: calls of executeAction on every handled variant
ExecNext ==
  \/ \E c \in CallIds, action \in ExecInputs : ExecuteAction(c, action)
  \/ \E c \in CallIds : AddFileMirrored(c)
  \/ \E c \in CallIds : AddFileMirrorFailed(c)
  \/ \E c \in CallIds : DeleteFileGot(c)
  \/ \E c \in CallIds : DeleteFileDeleted(c)
  \/ \E c \in CallIds, success \in BOOLEAN : RunPythonClosed(c, success)
  \/ \E c \in CallIds : Finish(c)

ExecSpec == Init /\ [][ExecNext]_vars

\* the validated actions that update files and create projects and pages
StoreInputs == UpdateFileInputs \cup CreateProjectInputs \cup CreateWebPageInputs

\* one validated action of each variant, and those whose target is missing
AllInputs ==
  ExecInputs \cup StoreInputs \cup GenerateCodeSnippetInputs

\* the caller whose calls follow one another
Caller == CHOOSE c \in CallIds : \A d \in CallIds : c <= d

\* one caller executing actions of every variant, one call after the other
SeqNext ==
  \/ \E action \in AllInputs : ExecuteAction(Caller, action)
  \/ AddFileMirrored(Caller)
  \/ AddFileMirrorFailed(Caller)
  \/ DeleteFileGot(Caller)
  \/ DeleteFileDeleted(Caller)
  \/ \E success \in BOOLEAN : RunPythonClosed(Caller, success)
  \/ \E ok \in BOOLEAN : UpdateFileMirrored(Caller, ok)
  \/ \E ok \in BOOLEAN : GenerateCodeReturned(Caller, ok)
  \/ StructureThrows(Caller)
  \/ \E structure \in Structures : ProjectStructureReturns(Caller, structure)
  \/ \E ok \in BOOLEAN : CreateProjectMkdir(Caller, ok)
  \/ \E ok \in BOOLEAN : CreateProjectMirrored(Caller, ok)
  \/ \E structure \in Structures : PageStructureReturns(Caller, structure)
  \/ CreateWebPageFile(Caller)
  \/ Finish(Caller)

SeqSpec == Init /\ [][SeqNext]_vars

\* one caller executing actions of every variant and confirming or denying
\* tokens, one call after the other
GateSeqNext ==
  \/ SeqNext
  \/ \E actionId \in ConfirmTokens, confirmed \in BOOLEAN :
       ConfirmAction(Caller, actionId, confirmed)

GateSeqSpec == Init /\ [][GateSeqNext]_vars

\* the two callers whose actions run concurrently
Racers == {c \in CallIds : c <= 2}

\* actions on one file: its deletion, and two updates of its content
RaceInputs ==
  {Obj2("type", JStr("delete_file"), "fileId", JStr("file-1")),
   JObj("type" :> JStr("update_file") @@ "fileId" :> JStr("file-1")
        @@ "content" :> JStr("<p>hola</p>")),
   JObj("type" :> JStr("update_file") @@ "fileId" :> JStr("file-1")
        @@ "content" :> JStr("<p>adios</p>"))}

\* two callers deleting and updating the same file, their calls interleaved
\* at the await points; every mirror write succeeds
RaceNext ==
  \/ \E c \in Racers, action \in RaceInputs : ExecuteAction(c, action)
  \/ \E c \in Racers : DeleteFileGot(c)
  \/ \E c \in Racers : DeleteFileDeleted(c)
  \/ \E c \in Racers : UpdateFileMirrored(c, TRUE)
  \/ \E c \in Racers : Finish(c)

RaceSpec == Init /\ [][RaceNext]_vars

\* deleteProject that leaves the files of the project in the store
deleteProject_NoCascade(id, projectMap, fileMap) ==
  [projects |-> MapDelete(projectMap, id),
   files |-> fileMap,
   deleted |-> id \in DOMAIN projectMap]

\* storage.deleteProject(id): projects.delete(id), then files.delete of every
\* file whose projectId is id; what projects.delete returned is returned
deleteProject(id, projectMap, fileMap) ==
  [projects |-> MapDelete(projectMap, id),
   files |-> [x \in {y \in DOMAIN fileMap : fileMap[y].projectId # id} |-> fileMap[x]],
   deleted |-> id \in DOMAIN projectMap]

\* the ids handed to deleteProject: those of the stored projects, and one
\* that names no project
ProjectIds == DOMAIN projects \cup {"no-such-project"}

\* a caller invokes storage.deleteProject(id), which runs without an await
DeleteProject(c, id) ==
  /\ calls[c].pc = "idle"
  /\ LET r == deleteProject(id, projects, files)
     IN  /\ projects' = r.projects
         /\ files' = r.files
         /\ calls' = [calls EXCEPT ![c] =
                        [pc |-> "done", op |-> "deleteProject", id |-> id,
                         result |-> r.deleted]]
  /\ UNCHANGED <<pendingConfirmations, mirror, pythonRuns, uuids, issued, resolution,
                 parser, serverVars>>

\* the actions that put projects and files into the store
StorageInputs == CreateProjectInputs \cup AddFileInputs

\* one caller creating projects, adding files and deleting projects, one call
\* after the other
StorageNext ==
  \/ \E action \in StorageInputs : ExecuteAction(Caller, action)
  \/ AddFileMirrored(Caller)
  \/ AddFileMirrorFailed(Caller)
  \/ StructureThrows(Caller)
  \/ \E structure \in Structures : ProjectStructureReturns(Caller, structure)
  \/ \E ok \in BOOLEAN : CreateProjectMkdir(Caller, ok)
  \/ \E ok \in BOOLEAN : CreateProjectMirrored(Caller, ok)
  \/ \E id \in ProjectIds : DeleteProject(Caller, id)
  \/ Finish(Caller)

StorageSpec == Init /\ [][StorageNext]_vars

(***************************************************************************)
(* The interactive session of the Python sandbox.  A process is a pid      *)
(* (0 is null); its record holds whether it runs, was killed or has        *)
(* closed, and the commands written to its stdin.                          *)
(***************************************************************************)
Commands == {"print(1)", "x = 2"}

\* stopInteractiveSession(): kill the process, forget it
stopInteractiveSession(executor, spawned) ==
  IF executor.process # 0 /\ executor.isRunning
  THEN [executor |-> [executor EXCEPT !.isRunning = FALSE, !.process = 0],
        children |-> [spawned EXCEPT ![executor.process].state = "killed"]]
  ELSE [executor |-> executor, children |-> spawned]

\* startInteractiveSession(): stop the running session, spawn python3 -i,
\* register the close and error handlers on the new process
startInteractiveSession(executor, spawned) ==
  LET stopped == IF executor.isRunning
                 THEN stopInteractiveSession(executor, spawned)
                 ELSE [executor |-> executor, children |-> spawned]
      pid == Cardinality(DOMAIN spawned) + 1
  IN  [executor |-> [stopped.executor EXCEPT !.process = pid, !.isRunning = TRUE],
       children |-> MapSet(stopped.children, pid, [state |-> "running", stdin |-> {}])]

\* isSessionRunning()
isSessionRunning == pythonExecutor.isRunning

\* the start-python-session handler: startInteractiveSession(), then an
\* output and an error listener are added to the executor
StartPythonSession ==
  /\ Cardinality(DOMAIN children) < MaxSessions
  /\ LET r == startInteractiveSession(pythonExecutor, children)
     IN  /\ pythonExecutor' = [r.executor EXCEPT !.listeners = @ + 1]
         /\ children' = r.children
  /\ UNCHANGED <<executorVars, parser, conversations, requests>>

\* the python-command handler: sendCommand(command) writes the command to
\* the stdin of this.process when there is one and the session is running
PythonCommand(command) ==
  /\ children' = IF pythonExecutor.process # 0 /\ pythonExecutor.isRunning
                 THEN [children EXCEPT ![pythonExecutor.process].stdin = @ \cup {command}]
                 ELSE children
  /\ UNCHANGED <<executorVars, parser, pythonExecutor, conversations, requests>>

\* a caller invokes stopInteractiveSession()
StopInteractiveSession ==
  /\ LET r == stopInteractiveSession(pythonExecutor, children)
     IN  /\ pythonExecutor' = r.executor
         /\ children' = r.children
  /\ UNCHANGED <<executorVars, parser, conversations, requests>>

\* the close event of a spawned process, one that exited or one that was
\* killed: the handler registered on it sets isRunning and process
ChildCloses(pid) ==
  /\ children[pid].state \in {"running", "killed"}
  /\ children' = [children EXCEPT ![pid].state = "closed"]
  /\ pythonExecutor' = [pythonExecutor EXCEPT !.isRunning = FALSE, !.process = 0]
  /\ UNCHANGED <<executorVars, parser, conversations, requests>>

SessionNext ==
  \/ StartPythonSession
  \/ \E command \in Commands : PythonCommand(command)
  \/ StopInteractiveSession
  \/ \E pid \in DOMAIN children : ChildCloses(pid)

SessionSpec == Init /\ [][SessionNext]_vars

(***************************************************************************)
(* The chat requests: POST /api/ai/chat and the ai-chat-stream event.      *)
(***************************************************************************)
ChatMessages == {"hola", "gracias"}
ChatResponses == {"Claro."}

\* the two messages a chat turn appends
Turn(message, response) ==
  <<[role |-> "user", content |-> message],
    [role |-> "assistant", content |-> response]>>

\* storage.getConversation(id): the messages of the conversation in a
\* one-element sequence, or the empty sequence for undefined
getConversation(id) ==
  IF id \in DOMAIN conversations THEN <<conversations[id]>> ELSE <<>>

\* storage.updateConversation(id, { messages }): nothing when it is missing
updateConversation(map, id, messages) ==
  IF id \in DOMAIN map THEN MapSet(map, id, messages) ELSE map

\* the ids the requests name: those of the stored conversations, and one
\* that names none
ConversationIds == DOMAIN conversations \cup {"no-such-conversation"}

\* the chat requests on a conversation that have not stored their turn yet
Storing(id) ==
  {r \in CallIds : /\ requests[r].pc \in {"chat:loaded", "chat:oracle", "chat:reloaded"}
                   /\ requests[r].conversationId = id}

\* POST /api/projects/:projectId/conversations: storage.createConversation
CreateConversation ==
  /\ uuids < MaxUuids
  /\ conversations' = MapSet(conversations, randomUUID(uuids), <<>>)
  /\ uuids' = uuids + 1
  /\ UNCHANGED <<pendingConfirmations, projects, files, mirror, pythonRuns, calls,
                 issued, resolution, parser, pythonExecutor, children, requests>>

\* a chat request arrives, over HTTP or over the socket: the handler up to
\* its first await, storage.getConversation(conversationId)
ChatRequest(r, via, message, conversationId) ==
  /\ requests[r].pc = "idle"
  /\ conversationId \in DOMAIN conversations
       => Len(conversations[conversationId])
            + 2 * Cardinality(Storing(conversationId)) + 2 <= 2 * MaxTurns
  /\ requests' = [requests EXCEPT ![r] =
                    [pc |-> "chat:loaded", via |-> via, message |-> message,
                     conversationId |-> conversationId,
                     previousMessages |->
                       IF getConversation(conversationId) = <<>> THEN <<>>
                       ELSE getConversation(conversationId)[1]]]
  /\ UNCHANGED <<executorVars, parser, pythonExecutor, children, conversations>>

\* the history is put into the context and the oracle is called:
\* chatWithAI, or the first chunk awaited from chatWithAIStream
ChatAsk(r) ==
  /\ requests[r].pc = "chat:loaded"
  /\ requests' = [requests EXCEPT ![r].pc = "chat:oracle"]
  /\ UNCHANGED <<executorVars, parser, pythonExecutor, children, conversations>>

\* the oracle answered: the handler calls storage.getConversation again
\* and awaits it
ChatAnswered(r, response) ==
  /\ requests[r].pc = "chat:oracle"
  /\ requests' = [requests EXCEPT ![r] =
                    [pc |-> "chat:reloaded", response |-> response,
                     conversation |-> getConversation(requests[r].conversationId)] @@ @]
  /\ UNCHANGED <<executorVars, parser, pythonExecutor, children, conversations>>

\* the oracle call failed: the catch answers 500 or emits ai-chat-error
ChatFailed(r) ==
  /\ requests[r].pc = "chat:oracle"
  /\ requests' = [requests EXCEPT ![r] = [pc |-> "done", ok |-> FALSE] @@ @]
  /\ UNCHANGED <<executorVars, parser, pythonExecutor, children, conversations>>

\* after the second getConversation: the messages read, with the turn
\* appended, are handed to storage.updateConversation, which is awaited;
\* without a conversation the response is sent at once
ChatStore(r) ==
  /\ requests[r].pc = "chat:reloaded"
  /\ IF requests[r].conversation = <<>>
     THEN /\ requests' = [requests EXCEPT ![r] = [pc |-> "done", ok |-> TRUE] @@ @]
          /\ conversations' = conversations
     ELSE /\ requests' = [requests EXCEPT ![r].pc = "chat:stored"]
          /\ conversations' =
               updateConversation(conversations, requests[r].conversationId,
                                  requests[r].conversation[1]
                                    \o Turn(requests[r].message, requests[r].response))
  /\ UNCHANGED <<executorVars, parser, pythonExecutor, children>>

\* after storage.updateConversation: res.json({ response }) or ai-chat-end
ChatRespond(r) ==
  /\ requests[r].pc = "chat:stored"
  /\ requests' = [requests EXCEPT ![r] = [pc |-> "done", ok |-> TRUE] @@ @]
  /\ UNCHANGED <<executorVars, parser, pythonExecutor, children, conversations>>

\* the client has the response
ChatFinish(r) ==
  /\ requests[r].pc = "done"
  /\ requests' = [requests EXCEPT ![r] = [pc |-> "idle"]]
  /\ UNCHANGED <<executorVars, parser, pythonExecutor, children, conversations>>

ChatNext ==
  \/ CreateConversation
  \/ \E r \in CallIds, via \in {"http", "socket"}, message \in ChatMessages,
        conversationId \in ConversationIds :
       ChatRequest(r, via, message, conversationId)
  \/ \E r \in CallIds : ChatAsk(r)
  \/ \E r \in CallIds, response \in ChatResponses : ChatAnswered(r, response)
  \/ \E r \in CallIds : ChatFailed(r)
  \/ \E r \in CallIds : ChatStore(r)
  \/ \E r \in CallIds : ChatRespond(r)
  \/ \E r \in CallIds : ChatFinish(r)

ChatSpec == Init /\ [][ChatNext]_vars

(***************************************************************************)
(* The call of parseUserRequest.                                           *)
(***************************************************************************)
Messages == {"Crea un proyecto web llamado mi-sitio", "Agrega una página de contacto"}

Contexts ==
  {NoContext,
   Context("currentFile" :> "index.html"),
   Context("projectId" :> ""),
   Context("projectId" :> "proj-42"),
   Context("projectId" :> "current")}

\* candidates the schema accepts: one for each variant
ValidCandidates ==
  {JObj("type" :> JStr("create_project") @@ "name" :> JStr("mi-sitio")
        @@ "projectType" :> JStr("web") @@ "template" :> JStr("basic_website")),
   JObj("type" :> JStr("add_file") @@ "projectId" :> JStr("current")
        @@ "name" :> JStr("a.js") @@ "content" :> JStr("") @@ "path" :> JStr("/a.js")
        @@ "fileType" :> JStr("js")),
   JObj("type" :> JStr("update_file") @@ "fileId" :> JStr("file-1")
        @@ "content" :> JStr("<p>hola</p>")),
   JObj("type" :> JStr("delete_file") @@ "fileId" :> JStr("file-1")),
   JObj("type" :> JStr("create_web_page") @@ "projectId" :> JStr("current")
        @@ "pageName" :> JStr("contacto") @@ "pageType" :> JStr("contact")),
   JObj("type" :> JStr("modify_apk") @@ "projectId" :> JStr("proj-7")
        @@ "action" :> JStr("change_icon") @@ "parameters" :> JObj(NoFields)),
   JObj("type" :> JStr("run_python") @@ "code" :> JStr("print(1)")
        @@ "projectId" :> JStr("current")),
   JObj("type" :> JStr("generate_code_snippet") @@ "language" :> JStr("javascript")
        @@ "description" :> JStr("Componente React para mostrar productos"))}

\* candidates the schema rejects: a missing required field, an empty required
\* string, a value outside an enum, an unknown or missing discriminant, a
\* wrongly typed required field, a wrongly typed optional field, and values
\* that are no objects
InvalidCandidates ==
  {JObj("type" :> JStr("create_project") @@ "projectType" :> JStr("web")),
   JObj("type" :> JStr("run_python") @@ "code" :> JStr("")),
   JObj("type" :> JStr("create_web_page") @@ "projectId" :> JStr("current")
        @@ "pageName" :> JStr("inicio") @@ "pageType" :> JStr("home")),
   JObj("type" :> JStr("deploy") @@ "projectId" :> JStr("current")),
   JObj("projectId" :> JStr("current")),
   JObj("type" :> JStr("delete_file") @@ "fileId" :> JNum("7")),
   JObj("type" :> JStr("run_python") @@ "code" :> JStr("print(1)")
        @@ "description" :> JNum("42")),
   JNull,
   JStr("hola"),
   JNum("42")}

Candidates == ValidCandidates \cup InvalidCandidates

\* decoded answers that ask for clarification, or look as if they did
ClarificationObjects ==
  {JObj("needsMoreInfo" :> JBool(TRUE)
        @@ "clarificationMessage" :> JStr("¿Para qué proyecto?")),
   JObj("needsMoreInfo" :> JBool(TRUE)),
   JObj("needsMoreInfo" :> JBool(TRUE) @@ "clarificationMessage" :> JNum("42")),
   JObj("needsMoreInfo" :> JStr("yes") @@ "type" :> JStr("run_python")
        @@ "code" :> JStr("print(1)")),
   JObj("needsMoreInfo" :> JBool(FALSE) @@ "type" :> JStr("run_python")
        @@ "code" :> JStr("print(1)"))}

CandidateLists == UNION {[1 .. n -> Candidates] : n \in 0 .. MaxCandidates}

\* the texts the oracle may answer with
OracleTexts ==
  {ProseText, EmptyText}
  \cup {JsonText(j) : j \in Candidates \cup ClarificationObjects}
  \cup {JsonText(JArr(list)) : list \in CandidateLists}

\* parseUserRequest(message, context) up to its await: the prompt is built
\* and chatWithAI is called
ParseUserRequest(message, context) ==
  /\ parser.pc = "idle"
  /\ parser' = [pc |-> "awaitOracle", message |-> message, context |-> context]
  /\ UNCHANGED <<executorVars, serverVars>>

\* the oracle answered with a text: the inner try decodes and validates it
OracleReturns(text) ==
  /\ parser.pc = "awaitOracle"
  /\ parser' = [pc |-> "done", message |-> parser.message, context |-> parser.context,
                threw |-> FALSE, text |-> text,
                result |-> ParseResponse(chatWithAI(text), parser.context)]
  /\ UNCHANGED <<executorVars, serverVars>>

\* the oracle call failed: chatWithAI throws, the outer catch answers
OracleThrows ==
  /\ parser.pc = "awaitOracle"
  /\ parser' = [pc |-> "done", message |-> parser.message, context |-> parser.context,
                threw |-> TRUE, text |-> EmptyText,
                result |-> ParseErrorResult]
  /\ UNCHANGED <<executorVars, serverVars>>

\* the caller is done with the ParseResult
ParseFinish ==
  /\ parser.pc = "done"
  /\ parser' = [pc |-> "idle"]
  /\ UNCHANGED <<executorVars, serverVars>>

ParseNext ==
  \/ \E message \in Messages, context \in Contexts : ParseUserRequest(message, context)
  \/ \E text \in OracleTexts : OracleReturns(text)
  \/ OracleThrows
  \/ ParseFinish

ParseSpec == Init /\ [][ParseNext]_vars

(***************************************************************************)
(* The claims.  What follows states and checks them; calls that have       *)
(* returned are read off their slots.                                      *)
(***************************************************************************)
\* the confirmAction calls that have returned
ReturnedConfirms ==
  {c \in CallIds : calls[c].pc = "done" /\ calls[c].op = "confirmAction"}

\* in this step call c runs the first segment of `op`
Begins(c, op) ==
  /\ calls[c].pc = "idle"
  /\ calls'[c].pc # "idle"
  /\ calls'[c].op = op

\* C1: of two successive confirmAction(token, true) calls on a registered
\* token, the first (it meets the token pending) removes the entry, submits
\* the stored action to executeAction and returns that execution's outcome,
\* which for the stored modify_apk action is a new request for confirmation
\* of the same action under another token; the second (it meets a token a
\* confirmation has resolved) finds no entry, executes nothing and returns
\* success = false with the not-found message.
C1_ConfirmTwice ==
  \A c \in ReturnedConfirms :
    LET call == calls[c]
        token == call.actionId
    IN  call.confirmed =>
          /\ call.before = "pending" =>
               /\ call.found
               /\ token \notin DOMAIN pendingConfirmations
               /\ call.executed = <<issued[token]>>
               /\ "actionId" \in DOMAIN call.result
               /\ call.result.actionId # token
               /\ call.result.actionId \in DOMAIN issued
               /\ issued[call.result.actionId] = issued[token]
               /\ call.result = ConfirmationOutcome(issued[token], call.result.actionId)
          /\ call.before = "confirmed" =>
               /\ ~call.found
               /\ call.executed = <<>>
               /\ call.result = [success |-> FALSE, message |-> MsgNotFound]

\* C1, witness: both calls on one token have returned, the first having
\* executed the stored action and the second having found nothing
C1_Witness ==
  \E c1, c2 \in ReturnedConfirms :
    /\ calls[c1].actionId = calls[c2].actionId
    /\ calls[c1].confirmed /\ calls[c2].confirmed
    /\ calls[c1].before = "pending" /\ calls[c1].executed # <<>>
    /\ calls[c2].before = "confirmed" /\ calls[c2].result.message = MsgNotFound

\* C2: of the confirmAction calls in flight on one token at most one has
\* observed the token as pending, and only a token that no earlier call
\* observed is observed; the stored action is submitted to executeAction by
\* the observing call alone, and every call that does not observe the token
\* gets the not-found outcome.
C2_AtMostOneObserves ==
  /\ \A c \in ReturnedConfirms :
       /\ calls[c].found => calls[c].before = "pending"
       /\ calls[c].executed # <<>> => calls[c].found /\ calls[c].confirmed
       /\ ~calls[c].found =>
            /\ calls[c].executed = <<>>
            /\ calls[c].result = [success |-> FALSE, message |-> MsgNotFound]
  /\ \A c1, c2 \in ReturnedConfirms :
       (c1 # c2 /\ calls[c1].actionId = calls[c2].actionId)
         => ~(calls[c1].found /\ calls[c2].found)

\* C2, witness: two calls on one registered token are in flight at once; one
\* observed it and the other was told it is not found
C2_Witness ==
  \E c1, c2 \in ReturnedConfirms :
    /\ c1 # c2
    /\ calls[c1].actionId = calls[c2].actionId
    /\ calls[c1].found
    /\ ~calls[c2].found
    /\ calls[c2].before \in {"confirmed", "denied"}

\* C3: a step in which executeAction runs on a modify_apk action changes no
\* project record and no file record and reaches neither the storage mirror
\* nor the sandbox; the call returns success = false, requiresConfirmation =
\* true and an actionId that no earlier call registered and that is no key
\* of the pending map, and the pending map gains exactly the entry of that
\* actionId, holding the action unchanged.
C3_ModifyApkDefers ==
  [][\A c \in CallIds :
       (Begins(c, "executeAction")
        /\ Get(calls'[c].action, "type") = "modify_apk")
       => LET call == calls'[c]
          IN  /\ projects' = projects
              /\ files' = files
              /\ mirror' = mirror
              /\ pythonRuns' = pythonRuns
              /\ call.pc = "done"
              /\ call.result.success = FALSE
              /\ "requiresConfirmation" \in DOMAIN call.result
              /\ call.result.requiresConfirmation = TRUE
              /\ "actionId" \in DOMAIN call.result
              /\ call.result.actionId \notin DOMAIN issued
              /\ call.result.actionId \notin DOMAIN pendingConfirmations
              /\ call.result.actionId \notin DOMAIN files
              /\ DOMAIN pendingConfirmations' =
                   DOMAIN pendingConfirmations \cup {call.result.actionId}
              /\ \A t \in DOMAIN pendingConfirmations :
                   pendingConfirmations'[t] = pendingConfirmations[t]
              /\ pendingConfirmations'[call.result.actionId] = [action |-> call.action]
    ]_vars

\* C3, witness: a modify_apk call has returned its request for confirmation
\* in a state where a file was added under an earlier UUID and another
\* deleted, the mirror written and the sandbox run
C3_Witness ==
  \E c \in CallIds :
    /\ calls[c].pc = "done"
    /\ calls[c].op = "executeAction"
    /\ Get(calls[c].action, "type") = "modify_apk"
    /\ calls[c].result.requiresConfirmation
    /\ \E id \in DOMAIN files : id \notin DOMAIN SampleFiles
    /\ mirror # EmptyMap
    /\ pythonRuns # {}
    /\ "file-1" \notin DOMAIN files

\* C4: a step in which confirmAction(token, false) meets the token pending
\* removes that entry and nothing else, returns success = false with the
\* cancelled message and executes nothing (no token is minted, no record
\* changes); a step in which confirmAction(token, true) meets a token that
\* was denied returns the not-found outcome and changes nothing.
C4_DenialDiscards ==
  [][\A c \in CallIds :
       Begins(c, "confirmAction")
       => LET call == calls'[c]
              token == call.actionId
          IN  /\ (~call.confirmed /\ token \in DOMAIN pendingConfirmations) =>
                   /\ call.pc = "done"
                   /\ call.result = [success |-> FALSE, message |-> MsgCancelled]
                   /\ DOMAIN pendingConfirmations' = DOMAIN pendingConfirmations \ {token}
                   /\ \A t \in DOMAIN pendingConfirmations' :
                        pendingConfirmations'[t] = pendingConfirmations[t]
                   /\ UNCHANGED <<uuids, issued, projects, files, mirror, pythonRuns>>
              /\ (call.confirmed /\ TokenState(token) = "denied") =>
                   /\ call.pc = "done"
                   /\ call.result = [success |-> FALSE, message |-> MsgNotFound]
                   /\ UNCHANGED <<pendingConfirmations, uuids, issued, projects, files,
                                  mirror, pythonRuns>>
    ]_vars

\* C4, witness: a confirmation of a denied token has returned not found
C4_Witness ==
  \E c \in ReturnedConfirms :
    /\ calls[c].confirmed
    /\ calls[c].before = "denied"
    /\ calls[c].result.message = MsgNotFound
    /\ resolution[calls[c].actionId] = "denied"

\* C5: a step in which confirmAction is called with a token that is no key
\* of the pending map returns, whether confirmed is true or false, success =
\* false with the not-found message (the call completes with an outcome) and
\* leaves the pending map, the project store and the file store unchanged.
C5_UnknownToken ==
  [][\A c \in CallIds :
       (Begins(c, "confirmAction")
        /\ calls'[c].actionId \notin DOMAIN pendingConfirmations)
       => /\ calls'[c].pc = "done"
          /\ calls'[c].result = [success |-> FALSE, message |-> MsgNotFound]
          /\ pendingConfirmations' = pendingConfirmations
          /\ projects' = projects
          /\ files' = files
    ]_vars

\* C5, witness: calls on a never-issued token and on a resolved token have
\* returned, one confirming and one denying, while another token is pending
\* and a file is deleted
C5_Witness ==
  \E c1, c2 \in ReturnedConfirms :
    /\ calls[c1].before = "unregistered" /\ calls[c1].confirmed
    /\ calls[c2].before \in {"confirmed", "denied"} /\ ~calls[c2].confirmed
    /\ calls[c1].result.message = MsgNotFound
    /\ calls[c2].result.message = MsgNotFound
    /\ pendingConfirmations # EmptyMap
    /\ "file-1" \notin DOMAIN files

\* the parseUserRequest call has returned
Returned == parser.pc = "done"

\* the candidates of the decoded answer, when the oracle answered with JSON
ReturnedCandidates == AsArray(parser.text.value)

\* the positions of the candidates that satisfy the Action Schema
Satisfying(candidates) ==
  {i \in DOMAIN candidates : ChatActionAccepts(candidates[i])}

\* the position, among the satisfying candidates, of the one at position i
Rank(candidates, i) == Cardinality({j \in Satisfying(candidates) : j <= i})

\* the variant of candidate declares a projectId field
DeclaresProjectId(candidate) ==
  \E f \in UnionOption(candidate.v["type"].v) : f.name = "projectId"

\* C6: every result parseUserRequest returns with needsMoreInfo = true has
\* the empty sequence as its actions.
C6_NeedsMoreInfoHasNoActions ==
  Returned => (parser.result.needsMoreInfo => parser.result.actions = <<>>)

\* C6, witness: a result of the clarification pass-through has returned
C6_Witness ==
  /\ Returned
  /\ parser.text.raw = "json"
  /\ HasKey(parser.text.value, "needsMoreInfo")
  /\ parser.result.needsMoreInfo
  /\ parser.result.actions = <<>>
  /\ "clarificationMessage" \in DOMAIN parser.result
  /\ parser.result.clarificationMessage.v \notin {MsgNotUnderstood, MsgParseError}

\* C7: when the oracle's response text is no JSON document, parseUserRequest
\* returns (it raises nothing) actions = [], needsMoreInfo = true and a
\* clarificationMessage that is a non-empty string.
C7_UndecodableText ==
  (Returned /\ ~parser.threw /\ parser.text.raw # "json")
  => /\ parser.result.actions = <<>>
     /\ parser.result.needsMoreInfo = TRUE
     /\ "clarificationMessage" \in DOMAIN parser.result
     /\ parser.result.clarificationMessage.k = "str"
     /\ parser.result.clarificationMessage.v # ""

\* C7, witness: the oracle answered in prose and the parser has returned
C7_Witness ==
  /\ Returned
  /\ ~parser.threw
  /\ parser.text = ProseText
  /\ parser.result.needsMoreInfo
  /\ parser.result.clarificationMessage.v = MsgNotUnderstood

\* a ParseResult as parseUserRequest declares it: actions a sequence of
\* values of the Action Schema, needsMoreInfo a boolean, clarificationMessage
\* absent or a string
WellFormedParseResult(result) ==
  /\ {"actions", "needsMoreInfo"} \subseteq DOMAIN result
  /\ DOMAIN result \subseteq {"actions", "needsMoreInfo", "clarificationMessage"}
  /\ result.needsMoreInfo \in BOOLEAN
  /\ \A i \in DOMAIN result.actions : ChatActionAccepts(result.actions[i])
  /\ "clarificationMessage" \in DOMAIN result => result.clarificationMessage.k = "str"

\* C8: whatever the message, the context and the oracle do, parseUserRequest
\* returns a well-formed ParseResult; when the oracle call fails the result
\* is actions = [], needsMoreInfo = true with the generic error message.
C8_AlwaysWellFormed ==
  Returned
  => /\ WellFormedParseResult(parser.result)
     /\ parser.threw =>
          /\ parser.result.actions = <<>>
          /\ parser.result.needsMoreInfo = TRUE
          /\ parser.result.clarificationMessage = JStr(MsgParseError)

\* C9: when the decoded answer is a list of candidates, the returned actions
\* are the validated forms of exactly the candidates that satisfy the Action
\* Schema, in the order of the list, however many siblings fail.
C9_IndependentValidation ==
  (Returned /\ ~parser.threw /\ parser.text.raw = "json"
   /\ parser.text.value.k = "arr")
  => LET candidates == parser.text.value.v
         actions == parser.result.actions
     IN  /\ Len(actions) = Cardinality(Satisfying(candidates))
         /\ \A i \in Satisfying(candidates) :
              actions[Rank(candidates, i)]
                = ChatActionParse(ReplaceCurrent(candidates[i], parser.context))

\* C10 as stated: when the context carries a projectId p, the returned action
\* of every candidate whose projectId is "current" has projectId = p and
\* never "current"; the returned action of a candidate with any other
\* projectId has that projectId.
C10_AsStated ==
  (Returned /\ ~parser.threw /\ parser.text.raw = "json" /\ ~parser.result.needsMoreInfo)
  => \A i \in Satisfying(ReturnedCandidates) :
       LET candidate == ReturnedCandidates[i]
           action == parser.result.actions[Rank(ReturnedCandidates, i)]
           ctx == parser.context
       IN  HasKey(candidate, "projectId") =>
             IF candidate.v["projectId"] = JStr("current")
             THEN (ctx.given /\ "projectId" \in DOMAIN ctx.f) =>
                    /\ HasKey(action, "projectId")
                    /\ action.v["projectId"] = JStr(ctx.f["projectId"])
                    /\ action.v["projectId"] # JStr("current")
             ELSE /\ HasKey(action, "projectId")
                  /\ action.v["projectId"] = candidate.v["projectId"]

\* C10, amended: for a candidate of a variant that declares a projectId
\* field, the returned action has projectId = p when the candidate's is
\* "current" and the context carries a non-empty projectId p, and the
\* candidate's own projectId otherwise; the returned action of a candidate of
\* any other variant has no projectId.
C10_Substitution ==
  (Returned /\ ~parser.threw /\ parser.text.raw = "json" /\ ~parser.result.needsMoreInfo)
  => \A i \in Satisfying(ReturnedCandidates) :
       LET candidate == ReturnedCandidates[i]
           action == parser.result.actions[Rank(ReturnedCandidates, i)]
           ctx == parser.context
           p == IF ctx.given /\ "projectId" \in DOMAIN ctx.f THEN ctx.f["projectId"] ELSE ""
       IN  IF DeclaresProjectId(candidate)
           THEN /\ HasKey(action, "projectId")
                /\ action.v["projectId"] =
                     IF candidate.v["projectId"] = JStr("current") /\ p # ""
                     THEN JStr(p)
                     ELSE candidate.v["projectId"]
           ELSE ~HasKey(action, "projectId")

\* C10, witness: a list with a "current" candidate and a candidate of another
\* projectId was parsed under the context of proj-42, and both came back
C10_Witness ==
  /\ Returned
  /\ parser.context = Context("projectId" :> "proj-42")
  /\ parser.text.raw = "json"
  /\ parser.text.value.k = "arr"
  /\ \E i, j \in DOMAIN parser.text.value.v :
       /\ ChatActionAccepts(parser.text.value.v[i])
       /\ DeclaresProjectId(parser.text.value.v[i])
       /\ parser.text.value.v[i].v["projectId"] = JStr("current")
       /\ HasKey(parser.text.value.v[j], "projectId")
       /\ parser.text.value.v[j].v["projectId"] = JStr("proj-7")
  /\ \E i, j \in DOMAIN parser.result.actions :
       /\ HasKey(parser.result.actions[i], "projectId")
       /\ parser.result.actions[i].v["projectId"] = JStr("proj-42")
       /\ HasKey(parser.result.actions[j], "projectId")
       /\ parser.result.actions[j].v["projectId"] = JStr("proj-7")

\* the executeAction calls that have returned
ReturnedExecutes ==
  {c \in CallIds : calls[c].pc = "done" /\ calls[c].op = "executeAction"}

\* the points at which a handler awaits a collaborator
AwaitPoints ==
  {"addFile:mirror", "deleteFile:got", "deleteFile:deleted", "runPython:wait",
   "updateFile:mirror", "generateCode:wait", "createProject:structure",
   "createProject:mkdir", "createProject:mirror", "createWebPage:structure",
   "createWebPage:file"}

\* an ActionOutcome: success a boolean, message a string, and of the other
\* keys only those ActionResponse declares
IsActionOutcome(result) ==
  /\ {"success", "message"} \subseteq DOMAIN result
  /\ DOMAIN result \subseteq {"success", "message", "data", "requiresConfirmation",
                              "confirmationMessage", "actionId"}
  /\ result.success \in BOOLEAN
  /\ result.message \in STRING

\* the messages with which a handler reports that a collaborator failed
CollaboratorFailureMessages ==
  {"Error agregando el archivo: EACCES",
   "Error actualizando el archivo: " \o MsgMirrorError,
   "Error creando el proyecto: " \o MsgMirrorError,
   "Error creando el proyecto: " \o MsgStructureError,
   "Error creando la página: " \o MsgStructureError,
   "Error generando código: " \o MsgCodeError,
   MsgPythonError}

C12_UpdateFileFrame ==
  [][\A c \in CallIds :
       (Begins(c, "executeAction")
        /\ Get(calls'[c].action, "type") = "update_file"
        /\ Get(calls'[c].action, "fileId") \in DOMAIN files)
       => LET action == calls'[c].action
              id == Get(action, "fileId")
          IN  /\ DOMAIN files' = DOMAIN files
              /\ \A other \in DOMAIN files \ {id} : files'[other] = files[other]
              /\ \A f \in {"content", "path", "name"} :
                   files'[id][f] = IF HasKey(action, f) THEN action.v[f].v ELSE files[id][f]
              /\ files'[id].projectId = files[id].projectId
              /\ files'[id].type = files[id].type
              /\ files'[id].isModified = TRUE
              /\ projects' = projects
    ]_vars

\* C12, witness: an update of file-3 with only content has returned; the
\* file was unmodified before
C12_Witness ==
  \E c \in ReturnedExecutes :
    /\ Get(calls[c].action, "type") = "update_file"
    /\ DOMAIN calls[c].action.v = {"type", "fileId", "content"}
    /\ Get(calls[c].action, "fileId") = "file-3"
    /\ calls[c].result.success
    /\ files["file-3"] = [SampleFiles["file-3"] EXCEPT !.content = "console.log(1)",
                                                       !.isModified = TRUE]
    /\ ~SampleFiles["file-3"].isModified

\* the oracle answered with one candidate, which went through validation
SingleCandidate ==
  /\ Returned
  /\ ~parser.threw
  /\ parser.text.raw = "json"
  /\ parser.text.value.k \notin {"arr", "null"}
  /\ ~parser.result.needsMoreInfo

\* the candidate has one of the eight discriminants
KnownType(j) == IsStrAt(j, "type") /\ j.v["type"].v \in ActionType

\* the fields of the candidate's variant that are required, or optional, and
\* wrong: absent when required, or present and not passing their check
WrongFields(j, optional) ==
  {f \in UnionOption(j.v["type"].v) :
     /\ f.optional = optional
     /\ IF f.name \in DOMAIN j.v THEN ~ZodCheck(j.v[f.name], f.kind, f.enum)
        ELSE ~optional}

\* C13 as stated: validation rejects the candidate whose type is missing or
\* unknown, and accepts the candidate of a known type whose required fields
\* are all present, correctly typed and within their enums.
C13_AsStated ==
  SingleCandidate
  => LET j == parser.text.value
         accepted == Len(parser.result.actions) = 1
     IN  /\ ~KnownType(j) => ~accepted
         /\ (KnownType(j) /\ WrongFields(j, FALSE) = {}) => accepted

\* C13, amended: validation accepts a candidate exactly when its type is one
\* of the eight discriminants, its required fields are all present, correctly
\* typed and within their enums, and the optional fields it carries are
\* correctly typed and within their enums too.
C13_SchemaDecides ==
  SingleCandidate
  => LET j == parser.text.value
         accepted == Len(parser.result.actions) = 1
     IN  accepted <=> (/\ KnownType(j)
                       /\ WrongFields(j, FALSE) = {}
                       /\ WrongFields(j, TRUE) = {})

\* C13, witness: a run_python candidate with its required code and a numeric
\* description went through validation and was rejected
C13_Witness ==
  /\ SingleCandidate
  /\ KnownType(parser.text.value)
  /\ WrongFields(parser.text.value, FALSE) = {}
  /\ WrongFields(parser.text.value, TRUE) # {}
  /\ parser.result.actions = <<>>

\* C14: every ActionOutcome that executeAction or confirmAction has returned
\* carries an actionId exactly when its requiresConfirmation is true.
C14_TokenIffConfirmation ==
  \A c \in CallIds :
    calls[c].pc = "done" =>
      ("actionId" \in DOMAIN calls[c].result
         <=> (/\ "requiresConfirmation" \in DOMAIN calls[c].result
              /\ calls[c].result.requiresConfirmation = TRUE))

\* C14, witness: after a run of the sandbox, whose outcome carried neither,
\* confirmAction has returned a request for confirmation with its token
C14_Witness ==
  \E c \in ReturnedConfirms :
    /\ "requiresConfirmation" \in DOMAIN calls[c].result
    /\ calls[c].result.requiresConfirmation
    /\ calls[c].result.actionId \in DOMAIN pendingConfirmations
    /\ pythonRuns # {}

\* the decoded answer carries candidates: it is a list, or a value that does
\* not ask for clarification
CarriesCandidates ==
  /\ Returned
  /\ ~parser.threw
  /\ parser.text.raw = "json"
  /\ parser.text.value.k # "null"
  /\ ~(HasKey(parser.text.value, "needsMoreInfo")
       /\ Truthy(parser.text.value.v["needsMoreInfo"]))

\* C15: every action parseUserRequest returns satisfies the Action Schema and
\* is the validated form of a candidate that satisfies it, so a candidate that
\* fails validation is not in the result; and the result of an answer that
\* carries candidates, failing ones included, is no needsMoreInfo result.
C15_OnlyValidActions ==
  /\ Returned =>
       \A i \in DOMAIN parser.result.actions : ChatActionAccepts(parser.result.actions[i])
  /\ CarriesCandidates =>
       /\ \A i \in DOMAIN parser.result.actions :
            \E j \in Satisfying(ReturnedCandidates) :
              parser.result.actions[i]
                = ChatActionParse(ReplaceCurrent(ReturnedCandidates[j], parser.context))
       /\ ~parser.result.needsMoreInfo
       /\ "clarificationMessage" \notin DOMAIN parser.result

\* C16: a step in which confirmAction(token, true) meets the token pending
\* executes the stored action for good: the call returns an outcome that does
\* not require confirmation, and the pending map has one entry less than
\* before, none of them under a token registered in this step.
C16_ConfirmationIsTerminal ==
  [][\A c \in CallIds :
       (Begins(c, "confirmAction")
        /\ calls'[c].confirmed
        /\ calls'[c].actionId \in DOMAIN pendingConfirmations)
       => /\ calls'[c].pc = "done"
          /\ calls'[c].executed = <<pendingConfirmations[calls'[c].actionId].action>>
          /\ ~("requiresConfirmation" \in DOMAIN calls'[c].result
               /\ calls'[c].result.requiresConfirmation)
          /\ Cardinality(DOMAIN pendingConfirmations')
               = Cardinality(DOMAIN pendingConfirmations) - 1
          /\ DOMAIN pendingConfirmations' \subseteq DOMAIN pendingConfirmations
    ]_vars

\* C17: a step that removes a pending entry, or changes the action stored in
\* it, is a step of a confirmAction call on the token of that entry that met
\* it pending: every step of an executeAction call of any variant and of a
\* confirmAction call on another token leaves the entry as it is.
C17_OnlyOwnTokenRemoves ==
  [][\A token \in DOMAIN pendingConfirmations :
       \/ /\ token \in DOMAIN pendingConfirmations'
          /\ pendingConfirmations'[token] = pendingConfirmations[token]
       \/ \E c \in CallIds :
            /\ Begins(c, "confirmAction")
            /\ calls'[c].actionId = token
            /\ calls'[c].found
    ]_vars

\* C17, witness: of two registered tokens one was confirmed or denied, and
\* the other is still pending with the action it was registered with, after
\* a file was added and another deleted
C17_Witness ==
  \E t1, t2 \in DOMAIN issued :
    /\ t1 \in DOMAIN resolution
    /\ t2 \notin DOMAIN resolution
    /\ t2 \in DOMAIN pendingConfirmations
    /\ pendingConfirmations[t2] = [action |-> issued[t2]]
    /\ "file-1" \notin DOMAIN files

\* C18: a call that has made its change to the file records and awaits the
\* storage mirror returns success = true, whether the mirror call succeeds
\* or fails.
C18_MirrorIsBestEffort ==
  [][\A c \in CallIds :
       (calls[c].pc \in {"addFile:mirror", "updateFile:mirror"}
        /\ calls'[c].pc = "done")
       => calls'[c].result.success = TRUE
    ]_vars

\* C19: when generateProjectStructure throws, or returns a value whose files
\* cannot be iterated, create_project adds no project record and no file
\* record, and the outcome it returns is success = false.
C19_NothingWithoutSkeleton ==
  [][\A c \in CallIds :
       /\ (/\ calls[c].pc = "createProject:structure"
           /\ calls'[c].pc # "createProject:structure"
           /\ "structure" \in DOMAIN calls'[c] => ~Iterable(calls'[c].structure))
          => /\ projects' = projects
             /\ files' = files
       /\ (/\ calls[c].pc \in {"createProject:structure", "createProject:mkdir"}
           /\ calls'[c].pc = "done"
           /\ "structure" \in DOMAIN calls'[c] => ~Iterable(calls'[c].structure))
          => /\ calls'[c].result.success = FALSE
             /\ "project" \in DOMAIN calls'[c] => calls'[c].project \notin DOMAIN projects'
    ]_vars

\* the points at which createProject and createWebPage are inside the loop
\* over the generated files, the index-th file record created
LoopPoints == {"createProject:mirror", "createWebPage:file"}

\* the file records a create_project or create_web_page call has created
CreatedBy(call, fileMap) ==
  IF Get(call.action, "type") = "create_project"
  THEN {id \in DOMAIN fileMap : fileMap[id].projectId = call.project}
  ELSE {id \in DOMAIN fileMap \ DOMAIN SampleFiles :
          fileMap[id].projectId = Get(call.action, "projectId")}

\* C20: a step in which create_project or create_web_page fails on a
\* generated file ends the call with success = false, creates no further
\* record and removes none: the project record and the file records created
\* up to the failure are still in the store.
C20_NoRollback ==
  [][\A c \in CallIds :
       (calls[c].pc \in LoopPoints /\ calls'[c].pc = "done"
        /\ ~calls'[c].result.success)
       => /\ files' = files
          /\ projects' = projects
          /\ Get(calls[c].action, "type") = "create_project"
               => /\ calls[c].project \in DOMAIN projects'
                  /\ Cardinality(CreatedBy(calls[c], files')) = calls[c].index
          /\ Cardinality(CreatedBy(calls[c], files')) >= calls[c].index
    ]_vars

\* C20, witness: create_project failed on the mirror call of the first of two
\* generated files; the project record and the first file record are in the
\* store, and no record of the second
C20_Witness ==
  \E c \in ReturnedExecutes :
    /\ Get(calls[c].action, "type") = "create_project"
    /\ calls[c].result = [success |-> FALSE,
                          message |-> "Error creando el proyecto: " \o MsgMirrorError]
    /\ "index" \in DOMAIN calls[c]
    /\ calls[c].index = 1
    /\ Len(calls[c].structure.v["files"].v) = 2
    /\ calls[c].project \in DOMAIN projects
    /\ Cardinality(CreatedBy(calls[c], files)) = 1

\* C21: executeAction on an update_file action whose fileId names no file
\* record returns at once, without reaching the mirror call, the outcome
\* success = false with the file-not-found message, and leaves the file
\* records, the project records and the mirror as they were.
C21_UpdateMissingFile ==
  [][\A c \in CallIds :
       (/\ calls[c].pc = "idle"
        /\ calls'[c].pc # "idle"
        /\ calls'[c].op = "executeAction"
        /\ Get(calls'[c].action, "type") = "update_file"
        /\ Get(calls'[c].action, "fileId") \notin DOMAIN files)
       => /\ calls'[c].pc = "done"
          /\ calls'[c].result = Outcome(FALSE, MsgFileNotFound)
          /\ files' = files
          /\ projects' = projects
          /\ mirror' = mirror
    ]_vars

\* C21, witness: an update_file that supplies path and name, and none that
\* supplies content, has returned for a fileId that names no record
C21_Witness ==
  \E c \in ReturnedExecutes :
    /\ Get(calls[c].action, "type") = "update_file"
    /\ Get(calls[c].action, "fileId") \notin DOMAIN files
    /\ DOMAIN Updates(calls[c].action) = {"path", "name"}
    /\ calls[c].result.message = MsgFileNotFound

\* the calls of executeAction on a delete_file action that are in flight or
\* have returned
DeleteFileCalls(callMap) ==
  {c \in CallIds : /\ callMap[c].pc # "idle"
                   /\ callMap[c].op = "executeAction"
                   /\ Get(callMap[c].action, "type") = "delete_file"}

\* C22: a delete_file whose lookup finds no record returns success = false
\* with the file-not-found message and changes nothing; a delete_file that
\* returns success = true has its record out of the file store; and no step
\* of a delete_file removes or changes another file record or any project
\* record.
C22_DeleteFileFrame ==
  [][\A c \in DeleteFileCalls(calls') :
       LET id == Get(calls'[c].action, "fileId")
       IN  calls'[c] # calls[c]
           => /\ projects' = projects
              /\ \A x \in DOMAIN files \ {id} : x \in DOMAIN files' /\ files'[x] = files[x]
              /\ DOMAIN files' \subseteq DOMAIN files
              /\ (calls[c].pc = "deleteFile:got" /\ calls[c].got = <<>>)
                   => /\ calls'[c].pc = "done"
                      /\ calls'[c].result = Outcome(FALSE, MsgFileNotFound)
                      /\ files' = files
              /\ (calls'[c].pc = "done" /\ calls'[c].result.success)
                   => id \notin DOMAIN files'
    ]_vars

\* C22, witness: a delete_file of an existing record has returned
\* success = true, the record is gone and the other sample files are there
C22_Witness ==
  \E c \in ReturnedExecutes :
    /\ Get(calls[c].action, "type") = "delete_file"
    /\ calls[c].got # <<>>
    /\ calls[c].result.success
    /\ Get(calls[c].action, "fileId") \notin DOMAIN files
    /\ DOMAIN SampleFiles \ {Get(calls[c].action, "fileId")} \subseteq DOMAIN files

\* text begins with prefix
StartsWith(text, prefix) ==
  Len(text) >= Len(prefix) /\ SubSeq(text, 1, Len(prefix)) = prefix

\* the number of file records a create_web_page call has created so far
CreatedSoFar(call) == IF "index" \in DOMAIN call THEN call.index ELSE 0

\* C23: no step of a create_web_page call writes to the mirror or to the
\* project records or changes an existing file record; a file record it
\* creates has the action's projectId, a path under /pages/<pageName>/ and a
\* name that begins with pageName; and when it returns success = true it has
\* created as many records as the generated structure has files.
C23_CreateWebPageFrame ==
  [][\A c \in CallIds :
       (/\ calls'[c] # calls[c]
        /\ calls'[c].pc # "idle"
        /\ calls'[c].op = "executeAction"
        /\ Get(calls'[c].action, "type") = "create_web_page")
       => LET action == calls'[c].action
              new == DOMAIN files' \ DOMAIN files
          IN  /\ mirror' = mirror
              /\ projects' = projects
              /\ \A x \in DOMAIN files : x \in DOMAIN files' /\ files'[x] = files[x]
              /\ Cardinality(new) = CreatedSoFar(calls'[c]) - CreatedSoFar(calls[c])
              /\ \A x \in new :
                   /\ files'[x].projectId = Get(action, "projectId")
                   /\ StartsWith(files'[x].path,
                                 "/pages/" \o Get(action, "pageName") \o "/")
                   /\ StartsWith(files'[x].name, Get(action, "pageName"))
              /\ (calls'[c].pc = "done" /\ calls'[c].result.success)
                   => CreatedSoFar(calls'[c]) = Len(calls'[c].structure.v["files"].v)
    ]_vars

\* C23, witness: create_web_page has returned success = true for a structure
\* of two files, and the store holds two records under the page's path
C23_Witness ==
  \E c \in ReturnedExecutes :
    /\ Get(calls[c].action, "type") = "create_web_page"
    /\ calls[c].result.success
    /\ CreatedSoFar(calls[c]) = 2
    /\ Cardinality({x \in DOMAIN files :
                      StartsWith(files[x].path, "/pages/contacto/")}) = 2
    /\ mirror = EmptyMap

\* C24: a step of deleteProject(id) leaves no file record whose projectId is
\* id, leaves the file records of other projects and the other project
\* records as they were, and returns true exactly when a project record with
\* that id existed.
C24_DeleteProjectCascades ==
  [][\A c \in CallIds :
       (/\ calls[c].pc = "idle"
        /\ calls'[c].pc = "done"
        /\ calls'[c].op = "deleteProject")
       => LET id == calls'[c].id
          IN  /\ \A x \in DOMAIN files' : files'[x].projectId # id
              /\ \A x \in DOMAIN files :
                   files[x].projectId # id => x \in DOMAIN files' /\ files'[x] = files[x]
              /\ DOMAIN files' \subseteq DOMAIN files
              /\ id \notin DOMAIN projects'
              /\ \A x \in DOMAIN projects \ {id} :
                   x \in DOMAIN projects' /\ projects'[x] = projects[x]
              /\ calls'[c].result = (id \in DOMAIN projects)
    ]_vars

\* C24, witness: deleteProject has returned true for a project that
\* create_project created with a file; that file is gone, and the files of
\* the sample project are all there
C24_Witness ==
  \E c \in CallIds :
    /\ calls[c].pc = "done"
    /\ calls[c].op = "deleteProject"
    /\ calls[c].result = TRUE
    /\ calls[c].id = Uuid(1)
    /\ Uuid(2) \notin DOMAIN files
    /\ uuids >= 2
    /\ mirror # EmptyMap
    /\ \A x \in DOMAIN SampleFiles : x \in DOMAIN files

\* the calls of executeAction, in flight or returned, on an action of another
\* variant than modify_apk
ImmediateCalls(callMap) ==
  {c \in CallIds : /\ callMap[c].pc # "idle"
                   /\ callMap[c].op = "executeAction"
                   /\ Get(callMap[c].action, "type") # "modify_apk"}

\* C25: every entry of the pending map stores a modify_apk action; no step of
\* an executeAction call on another variant changes the pending map; and no
\* such call returns an outcome with requiresConfirmation = true.
C25_OnlyModifyApkDeferred ==
  /\ [](\A actionId \in DOMAIN pendingConfirmations :
          Get(pendingConfirmations[actionId].action, "type") = "modify_apk")
  /\ [](\A c \in ImmediateCalls(calls) :
          calls[c].pc = "done"
          => \/ "requiresConfirmation" \notin DOMAIN calls[c].result
             \/ ~calls[c].result.requiresConfirmation)
  /\ [][\A c \in ImmediateCalls(calls') :
          calls'[c] # calls[c] => pendingConfirmations' = pendingConfirmations]_vars

\* C25, witness: a delete_file has returned success = true without asking
\* for confirmation while a modify_apk action is pending
C25_Witness ==
  \E c \in ImmediateCalls(calls) :
    /\ calls[c].pc = "done"
    /\ Get(calls[c].action, "type") = "delete_file"
    /\ calls[c].result.success
    /\ DOMAIN calls[c].result = {"success", "message"}
    /\ pendingConfirmations # EmptyMap

C27_OneDeleteSucceeds ==
  \A c, d \in DeleteFileCalls(calls) :
    (/\ c # d
     /\ calls[c].pc = "done" /\ calls[d].pc = "done"
     /\ calls[c].action = calls[d].action
     /\ calls[c].got # <<>> /\ calls[d].got # <<>>)
    => /\ Get(calls[c].action, "fileId") \notin DOMAIN files
       /\ calls[c].deleted # calls[d].deleted
       /\ calls[c].result.success = calls[c].deleted
       /\ calls[d].result.success = calls[d].deleted

\* C27, witness: two delete_file calls found file-1, one has returned
\* success = true and the other that the file could not be deleted
C27_Witness ==
  \E c, d \in DeleteFileCalls(calls) :
    /\ c # d
    /\ calls[c].pc = "done" /\ calls[d].pc = "done"
    /\ calls[c].got # <<>> /\ calls[d].got # <<>>
    /\ calls[c].result.success
    /\ calls[d].result = Outcome(FALSE, MsgNotDeleted)

\* C28: when no update_file call is in flight, the mirror holds for every
\* file record it has a file for the content of the record.
C28_MirrorAgreesWithStore ==
  (\A c \in CallIds : calls[c].pc \in {"idle", "done"})
  => \A id \in DOMAIN files :
       LET key == <<files[id].projectId, files[id].path>>
       IN  key \in DOMAIN mirror => mirror[key] = files[id].content

\* the process startInteractiveSession spawned last
Latest == Cardinality(DOMAIN children)

\* C29: at most one spawned process is running, and while the process
\* spawned last is running (it has not closed and stopInteractiveSession has
\* not killed it) isSessionRunning() is true and the executor's process, to
\* which sendCommand writes, is that process.
C29_LatestSessionUsable ==
  /\ Cardinality({pid \in DOMAIN children : children[pid].state = "running"}) <= 1
  /\ (Latest > 0 /\ children[Latest].state = "running")
       => /\ isSessionRunning
          /\ pythonExecutor.process = Latest

\* the chat requests that were answered with a response
Answered == {r \in CallIds : requests[r].pc = "done" /\ requests[r].ok}

\* the positions in messages at which the turn of request r stands
TurnsOf(r, messages) ==
  {i \in 1 .. Len(messages) - 1 :
     <<messages[i], messages[i + 1]>> = Turn(requests[r].message, requests[r].response)}

\* C30: when no chat request is in flight, the messages of a conversation
\* hold the turn of every answered request that named it, the user message
\* followed at once by the assistant response, as many times as there are
\* answered requests with that turn.
C30_NoTurnLost ==
  (\A r \in CallIds : requests[r].pc \in {"idle", "done"})
  => \A r \in Answered :
       requests[r].conversationId \in DOMAIN conversations
       => Cardinality(TurnsOf(r, conversations[requests[r].conversationId]))
            >= Cardinality({q \in Answered :
                              /\ requests[q].conversationId = requests[r].conversationId
                              /\ requests[q].message = requests[r].message
                              /\ requests[q].response = requests[r].response})

====
